---- MODULE Spec2Model ----
(***************************************************************************)
(* A model of the gateway: the user store, the session store, the          *)
(* connection tracker and the WebSocket engine, over a shared KV with      *)
(* pub/sub, as they are written in src/src/session and src/src/wss.        *)
(* Every handler is one action; the helpers it calls are operators that    *)
(* map a state record to a state record, in the order the handler calls    *)
(* them.                                                                   *)
(***************************************************************************)
EXTENDS Integers, Sequences, FiniteSets, TLC

\* ------------------------------------------------------------------ bounds
MaxSessions == 2
MaxSockets == 2
MaxFrames == 2
MaxTimedFrames == 1
MaxTicks == 14
MaxInactiveDays == 1
MaxSweeps == 2
MaxLater == 2
MaxCalls == 2
MaxWaits == 2
MaxRoutes == 2
MaxRequests == 4
MaxInFlight == 2
MaxSeconds == 40

\* --------------------------------------------------------- program constants
CACHE_TTL_SESSION == 30
TIMESTAMP_UPDATE_INTERVAL == 30
CONN_TIMESTAMP_UPDATE_INTERVAL == 30
LAST_SEEN_UPDATE_INTERVAL == 30
SESSION_UPDATE_INTERVAL == 60
CACHE_TTL == 300
PING_INTERVAL == 25
PONG_WAIT == 5
PONG_TIMEOUT == 30
INACTIVITY_CHECK == 10
INACTIVITY_TIMEOUT == 60
SECONDS_PER_DAY == 86400
RETRY_ATTEMPTS == 3
RETRY_MULTIPLIER == 1
RETRY_MIN_WAIT == 1
RETRY_MAX_WAIT == 10
CIRCUIT_FAILURE_THRESHOLD == 5
CIRCUIT_RECOVERY_TIMEOUT == 30
\* time.time() when the model starts: later than every interval above
Epoch == 4 * CACHE_TTL
\* the model's clock advances in steps of TickStep seconds, the shortest sleep
TickStep == PONG_WAIT

\* ------------------------------------------------------------------ domains
NoVal == "none"
\* no session id: a missing field, None or the empty string
NoSid == -1
NoUser == [password |-> NoVal, role |-> NoVal, last_login |-> 0]
NoSession == [user_id |-> NoVal, api_key |-> NoVal, last_access |-> 0]
NoCached == [session |-> NoSession, cached_at |-> 0]
NoResponse == [session_id |-> NoSid, data |-> NoVal]
Users == {"alice", "*"}
Replicas == {"A", "B"}
Passwords == {"pw", "bad"}
SessionIds == 1..MaxSessions
\* what a client may put in a request: a minted id, or 0, an id never minted
ClientSids == 0..MaxSessions
Sockets == 1..MaxSockets
NoSock == 0
Roles == {"user", "admin", "guest"}
Keys == {"k1", "k2"}
\* the "type" of an inbound frame; the last two are a frame that is not
\* JSON and a JSON object without "type"
MsgTypes == {"update_api_key", "chat_message", "ping", "pong", "echo", "foo"}
InvalidJson == "<invalid json>"
MissingType == "<missing type>"
FrameTypes == MsgTypes \cup {InvalidJson, MissingType}
NoConnInfo == [ws |-> NoSock, session_id |-> NoSid, last_seen |-> 0]
NoHealth == [present |-> FALSE, last_activity |-> 0, last_pong |-> 0,
             ping_task |-> NoSock, inactivity_task |-> NoSock]
NoCachedMessage == [message_data |-> NoVal, timestamp |-> 0]
NoPending == [user_id |-> NoVal, api_key |-> NoVal, last_access |-> 0]
\* a round of the batch writer: where it is (asleep, before its pipelined GET,
\* before the execute of its pipelined SET), the snapshot it took, the SETs it
\* queued, and the publish tasks it created that have not run yet
NoFlush == [pc |-> "idle",
            to_process |-> [k \in ClientSids |-> NoPending],
            writes |-> [k \in SessionIds |-> NoSession],
            tasks |-> {}]
NoHandler == [registered |-> FALSE, require_auth |-> FALSE]
\* what a route decorator of the router deals with: the APIRoute it appends to
\* router.routes, and the endpoint function it is applied to
NoRoute == [kind |-> NoVal, path |-> NoVal]
APIRoute(name) == [kind |-> "APIRoute", path |-> name]
Endpoint(name) == [kind |-> "function", path |-> name]
FreeSocket ==
    [phase |-> "free", replica |-> NoVal, user |-> NoVal, role |-> NoVal,
     session_id |-> NoSid, app |-> "CONNECTING", client |-> "CONNECTING",
     closed_by |-> NoVal, close_code |-> 0, close_reason |-> NoVal,
     sent |-> <<>>, received |-> 0,
     ping_pc |-> "none", ping_wake |-> 0,
     inact_pc |-> "none", inact_wake |-> 0,
     last_session_update |-> 0,
     last_frame |-> 0, last_other |-> 0, last_own_pong |-> 0,
     run_key |-> NoVal, run_len |-> 0, run_acks |-> 0, run_enq |-> 0]
NoToken == [user |-> NoVal, role |-> NoVal]
\* how an attempt of _execute_request ends: a JSON answer, a
\* httpx.TimeoutException, a httpx.NetworkError, another httpx.RequestError,
\* or the status raise_for_status raises on
Outcomes == {"ok", "timeout", "network", "request_error", "404", "429", "503"}
StatusErrors == {"404", "429", "503"}
StatusCode(outcome) ==
    IF outcome = "404" THEN 404 ELSE IF outcome = "429" THEN 429 ELSE 503
\* the calls of make_request, in the order they are made, and who made them:
\* the WS proxy handler of a socket, or a REST proxy route (NoSock)
Requests == 1..MaxRequests
NoRequest == [pc |-> "idle", replica |-> NoVal, socket |-> NoSock,
              attempt_number |-> 0, wake |-> 0, trial |-> FALSE, result |-> NoVal]
ClosedBreaker == [state |-> "closed", failure_count |-> 0, opened |-> 0]
\* the coroutines that may be inside update_timestamp_only at once
Calls == 1..MaxCalls
NoCall == [pc |-> "idle", replica |-> NoVal, session_id |-> NoSid,
           current_time |-> 0, session |-> NoSession]

VARIABLES
    now,                      \* time.time(), in seconds
    kvUsers,                  \* users:<username>
    kvSessions,               \* sessions:<uuid>
    kvConn,                   \* connections:<user>
    nextSid,                  \* the next uuid4 to be drawn
    tokens,                   \* bearer tokens issued and not expired
    users_cache,              \* UserManager.users_cache, per replica
    session_cache,            \* SessionHandler._session_cache, per replica
    last_timestamp_updates,   \* SessionHandler._last_timestamp_updates
    last_connection_updates,  \* ConnectionManager._last_connection_updates
    pending_updates,          \* SessionHandler._pending_updates
    published,                \* the channels the last step published on
    wsInbox,                  \* messages delivered to the registry's listener
    eventInbox,               \* messages delivered to EventManager's listener
    ws,                       \* the sockets: connection handler and monitors
    active_connections,       \* WebsocketsRegistry.active_connections
    connections_count,        \* WebsocketsRegistry._connections_count
    connection_states,        \* WebsocketsManager.connection_states
    message_cache,            \* WebsocketsManager.message_cache
    message_permissions,      \* WebsocketsManager.message_permissions
    ws_handlers,              \* URLManager.ws_handlers
    external_apis,            \* URLManager.external_apis
    logins,                   \* history: the session ids login returned, per user
    sweeps,                   \* history: the runs of the reaper
    touch,                    \* the calls of update_timestamp_only in flight
    touch_writes,             \* history: the SETs of update_timestamp_only
    router_routes,            \* URLManager.router.routes, the proxy routes
    rest_route_refs,          \* URLManager._rest_route_refs
    circuit_breaker,          \* HttpxManager.circuit_breaker, per replica
    requests,                 \* the calls of HttpxManager.make_request in flight
    session_response,         \* the body of the last response of POST /sessions/create
    flush                     \* the round of _batch_writer in flight and its publish tasks

vars == <<now, kvUsers, kvSessions, kvConn, nextSid, tokens, users_cache,
          session_cache, last_timestamp_updates, last_connection_updates,
          pending_updates, published, wsInbox, eventInbox, ws, active_connections,
          connections_count, connection_states, message_cache,
          message_permissions, ws_handlers, external_apis, logins, sweeps,
          touch, touch_writes,
          router_routes,
          rest_route_refs,
          circuit_breaker,
          requests,
          session_response,
          flush>>

\* The state as one record, so that the helpers of a handler compose.
Cur ==
    [now |-> now, kvUsers |-> kvUsers, kvSessions |-> kvSessions,
     kvConn |-> kvConn, nextSid |-> nextSid, tokens |-> tokens,
     users_cache |-> users_cache, session_cache |-> session_cache,
     last_timestamp_updates |-> last_timestamp_updates,
     last_connection_updates |-> last_connection_updates,
     pending_updates |-> pending_updates,
     published |-> {}, wsInbox |-> wsInbox, eventInbox |-> eventInbox, ws |-> ws,
     active_connections |-> active_connections,
     connections_count |-> connections_count,
     connection_states |-> connection_states,
     message_cache |-> message_cache,
     message_permissions |-> message_permissions,
     ws_handlers |-> ws_handlers, external_apis |-> external_apis,
     logins |-> logins, sweeps |-> sweeps,
     touch |-> touch, touch_writes |-> touch_writes,
     router_routes |-> router_routes,
     rest_route_refs |-> rest_route_refs,
     circuit_breaker |-> circuit_breaker,
     requests |-> requests,
     session_response |-> session_response,
     flush |-> flush,
     retSid |-> NoSid, retSession |-> NoSession, retUser |-> NoUser, err |-> NoVal]

Commit(s) ==
    /\ now' = s.now
    /\ kvUsers' = s.kvUsers
    /\ kvSessions' = s.kvSessions
    /\ kvConn' = s.kvConn
    /\ nextSid' = s.nextSid
    /\ tokens' = s.tokens
    /\ users_cache' = s.users_cache
    /\ session_cache' = s.session_cache
    /\ last_timestamp_updates' = s.last_timestamp_updates
    /\ last_connection_updates' = s.last_connection_updates
    /\ pending_updates' = s.pending_updates
    /\ published' = s.published
    /\ wsInbox' = s.wsInbox
    /\ eventInbox' = s.eventInbox
    /\ ws' = s.ws
    /\ active_connections' = s.active_connections
    /\ connections_count' = s.connections_count
    /\ connection_states' = s.connection_states
    /\ message_cache' = s.message_cache
    /\ message_permissions' = s.message_permissions
    /\ ws_handlers' = s.ws_handlers
    /\ external_apis' = s.external_apis
    /\ logins' = s.logins
    /\ sweeps' = s.sweeps
    /\ touch' = s.touch
    /\ touch_writes' = s.touch_writes
    /\ router_routes' = s.router_routes
    /\ rest_route_refs' = s.rest_route_refs
    /\ circuit_breaker' = s.circuit_breaker
    /\ requests' = s.requests
    /\ session_response' = s.session_response
    /\ flush' = s.flush

\* WebsocketsManager.__init__: the allow-list of each role, a Python list
DefaultPermissions ==
    [role \in Roles |->
        IF role = "user" THEN <<"update_api_key", "chat_message", "pong", "ping">>
        ELSE IF role = "admin" THEN <<"*">>
        ELSE <<>>]

\* ------------------------------------------------------------- KV pub/sub
\* A channel "events:<topic>:<user>" is the pair <<topic, user>>.
RegistrySubscription == <<"session:logout", "*">>

\* SUBSCRIBE (not PSUBSCRIBE): a message is delivered to the subscriber of
\* exactly the channel it was published on.
Delivers(subscription, channel) == subscription = channel

\* EventManager.pubsub_listener subscribes, with SUBSCRIBE as well, to
\* "events:session:update:*", "events:connection:*" and "events:user:*"
EventSubscriptions == {<<"session:update", "*">>, <<"connection", "*">>, <<"user", "*">>}

publish(s, channel, session_id) ==
    [s EXCEPT
       !.published = @ \cup {channel},
       !.wsInbox = [r \in Replicas |->
                      IF Delivers(RegistrySubscription, channel)
                      THEN Append(@[r], [channel |-> channel, session_id |-> session_id])
                      ELSE @[r]],
       !.eventInbox = [r \in Replicas |->
                      IF \E sub \in EventSubscriptions : Delivers(sub, channel)
                      THEN Append(@[r], [channel |-> channel, session_id |-> session_id])
                      ELSE @[r]]]

\* EventManager.pubsub_listener: one message taken from the subscription.
\* The handler reads the channel from the payload, event.get('channel', ''),
\* a key no publisher of the program sets, so none of its branches is taken;
\* the dictionary it would update is SessionManager.users_cache, which is not
\* the dictionary UserManager reads.
EventChannel(message) == NoVal

event_listener(s, r) ==
    LET message == Head(s.eventInbox[r])
        channel == EventChannel(message)
        s1 == [s EXCEPT !.eventInbox[r] = Tail(@)]
    IN  IF channel = "user:delete"
        THEN [s1 EXCEPT !.users_cache[r][message.channel[2]] = @]
        ELSE s1

EventListener(r) ==
    /\ eventInbox[r] # <<>>
    /\ Commit(event_listener(Cur, r))

\* ------------------------------------------------------ connection tracker
EmptyHash ==
    [session_id |-> NoSid, gateway_id |-> NoVal, ws_connected |-> NoVal,
     last_seen |-> NoVal]

track_connection(s, user_id, session_id, gateway_id, ws_connected) ==
    LET data == [session_id |-> session_id, gateway_id |-> gateway_id,
                 ws_connected |-> IF ws_connected THEN "1" ELSE "0",
                 last_seen |-> "set"]
    IN  publish([s EXCEPT !.kvConn[user_id] = data],
                <<IF ws_connected THEN "connection:ws" ELSE "connection:http", user_id>>,
                session_id)

get_connection_info(s, user_id) == s.kvConn[user_id]

update_connection_timestamp(s, r, user_id) ==
    IF s.now - s.last_connection_updates[r][user_id] >= CONN_TIMESTAMP_UPDATE_INTERVAL
    THEN [s EXCEPT !.kvConn[user_id].last_seen = "set",
                   !.kvConn[user_id].gateway_id = r,
                   !.last_connection_updates[r][user_id] = s.now]
    ELSE s

remove_connection(s, user_id) ==
    publish([s EXCEPT !.kvConn[user_id] = EmptyHash],
            <<"connection:removed", user_id>>, NoSid)

\* ------------------------------------------------------------ session store
KvGetSession(s, session_id) ==
    IF session_id \in DOMAIN s.kvSessions THEN s.kvSessions[session_id] ELSE NoSession

CacheHit_inclusive(s, r, session_id) ==
    /\ session_id \in DOMAIN s.session_cache[r]
    /\ s.session_cache[r][session_id] # NoCached
    /\ s.now - s.session_cache[r][session_id].cached_at <= CACHE_TTL_SESSION

CacheHit(s, r, session_id) ==
    /\ session_id \in DOMAIN s.session_cache[r]
    /\ s.session_cache[r][session_id] # NoCached
    /\ s.now - s.session_cache[r][session_id].cached_at < CACHE_TTL_SESSION

\* The result is the pair (retSession, retSid): the session returned and its id.
get_or_create_session(s, r, user_id, session_id) ==
    IF session_id # NoSid /\ CacheHit(s, r, session_id)
    THEN [s EXCEPT !.retSession = s.session_cache[r][session_id].session,
                   !.retSid = session_id]
    ELSE IF session_id # NoSid /\ KvGetSession(s, session_id) # NoSession
    THEN [s EXCEPT !.session_cache[r][session_id] =
                       [session |-> KvGetSession(s, session_id), cached_at |-> s.now],
                   !.retSession = KvGetSession(s, session_id),
                   !.retSid = session_id]
    ELSE LET new_session_id == s.nextSid
             session == [user_id |-> user_id, api_key |-> NoVal, last_access |-> s.now]
         IN  publish([s EXCEPT !.nextSid = @ + 1,
                               !.kvSessions[new_session_id] = session,
                               !.session_cache[r][new_session_id] =
                                   [session |-> session, cached_at |-> s.now],
                               !.retSession = session,
                               !.retSid = new_session_id],
                     <<"session:new", user_id>>, new_session_id)

\* get_or_create_session draws a fresh uuid unless it finds the session asked for.
Mints(s, r, session_id) ==
    ~ (session_id # NoSid /\ (CacheHit(s, r, session_id) \/ KvGetSession(s, session_id) # NoSession))

delete_session(s, session_id) ==
    IF session_id \in DOMAIN s.kvSessions
    THEN [s EXCEPT !.kvSessions[session_id] = NoSession]
    ELSE s

update_timestamp_only(s, r, session_id) ==
    IF /\ session_id \in SessionIds
       /\ s.now - s.last_timestamp_updates[r][session_id] >= TIMESTAMP_UPDATE_INTERVAL
       /\ s.kvSessions[session_id] # NoSession
    THEN [s EXCEPT !.kvSessions[session_id].last_access = s.now,
                   !.last_timestamp_updates[r][session_id] = s.now]
    ELSE s

cleanup_user_sessions(s, user_id) ==
    [s EXCEPT !.kvSessions =
        [k \in DOMAIN @ |->
            IF @[k].user_id = user_id THEN NoSession ELSE @[k]]]

\* --------------------------------------------------------------- user store
save_user_to_redis(s, r, username, user_data) ==
    publish([s EXCEPT !.kvUsers[username] = user_data,
                      !.users_cache[r][username] = user_data],
            <<"user:register", username>>, NoSid)

delete_user_from_redis(s, r, username) ==
    publish([s EXCEPT !.kvUsers[username] = NoUser,
                      !.users_cache[r][username] = NoUser],
            <<"user:delete", username>>, NoSid)

\* The record found (or NoUser) is in retUser; a record read from the KV is cached.
get_user_from_redis(s, r, username) ==
    IF s.users_cache[r][username] # NoUser
    THEN [s EXCEPT !.retUser = s.users_cache[r][username]]
    ELSE IF s.kvUsers[username] # NoUser
    THEN [s EXCEPT !.users_cache[r][username] = s.kvUsers[username],
                   !.retUser = s.kvUsers[username]]
    ELSE [s EXCEPT !.retUser = NoUser]

\* ---------------------------------------------------------------- auth gate
TokenOf(user_id) == {t \in tokens : t.user = user_id}

\* SessionManager.get_current_user_with_activity: the dependency of every
\* authenticated HTTP route.  err is the HTTP error raised, or NoVal;
\* retSid the session id of the principal.
get_current_user_with_activity(s, r, user_id) ==
    LET conn == get_connection_info(s, user_id)
        s1 == IF conn = EmptyHash
              THEN LET c == get_or_create_session(s, r, user_id, NoSid)
                   IN  track_connection(c, user_id, c.retSid, r, FALSE)
              ELSE s
        session_id == get_connection_info(s1, user_id).session_id
    IN  IF session_id = NoSid
        THEN [s1 EXCEPT !.err = "400 No active session found"]
        ELSE [update_timestamp_only(update_connection_timestamp(s1, r, user_id),
                                    r, session_id)
                EXCEPT !.retSid = session_id]

\* the dependency draws a uuid when the user has no connection record
DepMints(s, user_id) == get_connection_info(s, user_id) = EmptyHash

CanMint(s) == s.nextSid <= MaxSessions

\* -------------------------------------------------------------- HTTP routes
\* POST /sessions/register
Register(r, u, pw) ==
    LET s1 == get_user_from_redis(Cur, r, u)
    IN  IF s1.retUser # NoUser
        THEN Commit(s1)     \* 400 Username already exists
        ELSE Commit(save_user_to_redis(s1, r, u, [password |-> pw, role |-> "user",
                                                  last_login |-> now]))

\* UserManager.login, after the credentials were accepted
login(s, r, user_id, user_data) ==
    LET s1 == save_user_to_redis([s EXCEPT !.tokens = @ \cup {[user |-> user_id, role |-> user_data.role]}],
                                 r, user_id, [user_data EXCEPT !.last_login = s.now])
        existing_conn == get_connection_info(s1, user_id)
        old_session_id == existing_conn.session_id
        s2 == IF existing_conn # EmptyHash /\ old_session_id # NoSid
              THEN publish(remove_connection(delete_session(s1, old_session_id), user_id),
                           <<"session:logout", user_id>>, old_session_id)
              ELSE s1
        s3 == get_or_create_session(s2, r, user_id, NoSid)
        s4 == track_connection(s3, user_id, s3.retSid, r, FALSE)
    IN  [update_timestamp_only(s4, r, s3.retSid)
            EXCEPT !.retSid = s3.retSid, !.logins[user_id] = Append(@, s3.retSid)]

\* POST /sessions/login
Login(r, u, pw) ==
    LET s1 == get_user_from_redis(Cur, r, u)
    IN  IF s1.retUser = NoUser \/ s1.retUser.password # pw
        THEN Commit(s1)     \* 401 Invalid username or password
        ELSE /\ CanMint(s1)
             /\ Commit(login(s1, r, u, s1.retUser))

\* UserManager.logout
logout(s, user_id, session_id) ==
    publish(remove_connection(s, user_id), <<"session:logout", user_id>>, session_id)

\* POST /sessions/logout
Logout(r, u) ==
    /\ TokenOf(u) # {}
    /\ DepMints(Cur, u) => CanMint(Cur)
    /\ LET s1 == get_current_user_with_activity(Cur, r, u)
       IN  IF s1.err # NoVal THEN Commit(s1)
           ELSE Commit(logout(s1, u, s1.retSid))

\* UserManager.delete_account
delete_account(s, r, user_id) ==
    publish(remove_connection(cleanup_user_sessions(delete_user_from_redis(s, r, user_id),
                                                    user_id),
                              user_id),
            <<"account:deleted", user_id>>, NoSid)

\* POST /sessions/delete_account
DeleteAccount(r, u) ==
    /\ TokenOf(u) # {}
    /\ DepMints(Cur, u) => CanMint(Cur)
    /\ LET s1 == get_current_user_with_activity(Cur, r, u)
       IN  IF s1.err # NoVal THEN Commit(s1)
           ELSE Commit(delete_account(s1, r, u))

\* the body of POST /sessions/create
create_or_get_session(s, r, user_id, principal_sid, request_sid) ==
    LET session_id == IF request_sid # NoSid THEN request_sid ELSE principal_sid
        s1 == get_or_create_session(s, r, user_id, session_id)
        s2 == track_connection(s1, user_id, s1.retSid, r, FALSE)
    IN  [s2 EXCEPT !.session_response =
                       [session_id |-> s1.retSid, data |-> s1.retSession.api_key]]

\* POST /sessions/create
SessionsCreate(r, u, request_sid) ==
    /\ TokenOf(u) # {}
    /\ DepMints(Cur, u) => CanMint(Cur)
    /\ LET s1 == get_current_user_with_activity(Cur, r, u)
       IN  IF s1.err # NoVal THEN Commit(s1)
           ELSE /\ Mints(s1, r, IF request_sid # NoSid THEN request_sid ELSE s1.retSid)
                     => CanMint(s1)
                /\ Commit(create_or_get_session(s1, r, u, s1.retSid, request_sid))

\* any other authenticated HTTP call: GET /sessions/users/{u}/connection
AuthenticatedCall(r, u) ==
    /\ TokenOf(u) # {}
    /\ DepMints(Cur, u) => CanMint(Cur)
    /\ Commit(get_current_user_with_activity(Cur, r, u))

\* ------------------------------------------- update_timestamp_only, by step
\* An authenticated request or socket frame of u reaches replica r: the gate
\* looks the connection record up, update_connection_timestamp runs, and
\* update_timestamp_only runs up to its first await, the GET.  current_time
\* and the throttle's answer are taken here.
Touch(c, r, u) ==
    LET conn == get_connection_info(Cur, u)
        session_id == conn.session_id
        s1 == update_connection_timestamp(Cur, r, u)
        due == s1.now - s1.last_timestamp_updates[r][session_id]
                   >= TIMESTAMP_UPDATE_INTERVAL
    IN  /\ touch[c].pc = "idle"
        /\ TokenOf(u) # {}
        /\ conn # EmptyHash
        /\ session_id \in SessionIds
        /\ Commit([s1 EXCEPT !.touch[c] =
                      IF due
                      THEN [pc |-> "get", replica |-> r,
                            session_id |-> session_id,
                            current_time |-> s1.now, session |-> NoSession]
                      ELSE NoCall])

\* the GET returns: the session is decoded and last_access set in the copy
TouchGet(c) ==
    LET serialized == KvGetSession(Cur, touch[c].session_id)
    IN  /\ touch[c].pc = "get"
        /\ Commit([Cur EXCEPT !.touch[c] =
                      IF serialized # NoSession
                      THEN [@ EXCEPT !.pc = "set",
                                     !.session = [serialized EXCEPT
                                         !.last_access = touch[c].current_time]]
                      ELSE NoCall])

\* the SET writes the copy back
TouchSet(c) ==
    /\ touch[c].pc = "set"
    /\ Commit([Cur EXCEPT
                  !.kvSessions[touch[c].session_id] = touch[c].session,
                  !.touch_writes = Append(@,
                      [session_id |-> touch[c].session_id,
                       replica |-> touch[c].replica,
                       arrived |-> touch[c].current_time,
                       at |-> now]),
                  !.touch[c].pc = "record"])

\* the SET returned: the throttle records current_time
TouchRecord(c) ==
    /\ touch[c].pc = "record"
    /\ Commit([Cur EXCEPT
                  !.last_timestamp_updates[touch[c].replica][touch[c].session_id] =
                      touch[c].current_time,
                  !.touch[c] = NoCall])

\* ------------------------------------------------------------------ reaper
\* the keys cleanup_expired_sessions collects because of their last_access
Pruned(s, max_inactive_days) ==
    {k \in SessionIds :
        /\ s.kvSessions[k] # NoSession
        /\ s.now - s.kvSessions[k].last_access > max_inactive_days * SECONDS_PER_DAY}

\* SessionCleaner.cleanup_expired_sessions.  A key whose TTL has lapsed is not
\* returned by KEYS.  For a key collected because of its last_access the log
\* line evaluates key.decode(); the client is built with decode_responses, the
\* key is a str, and AttributeError is raised before the DELETE is sent.
cleanup_expired_sessions(s, max_inactive_days) ==
    IF Pruned(s, max_inactive_days) # {}
    THEN [s EXCEPT !.err = "AttributeError"]
    ELSE s

RECURSIVE cleanup_users(_, _, _)
cleanup_users(s, cutoff, user_keys) ==
    IF user_keys = {} THEN s
    ELSE LET username == CHOOSE u \in user_keys : TRUE
             rest == cleanup_users(s, cutoff, user_keys \ {username})
         IN  IF s.kvUsers[username].last_login < cutoff
             THEN publish(remove_connection(cleanup_user_sessions(rest, username), username),
                          <<"user:inactive_cleanup", username>>, NoSid)
             ELSE rest

\* SessionCleaner.cleanup_inactive_users
cleanup_inactive_users(s, days_inactive) ==
    cleanup_users(s, s.now - days_inactive * SECONDS_PER_DAY,
                  {u \in Users : s.kvUsers[u] # NoUser})

\* SessionCleaner.cleanup_loop has died of an exception
ReaperDead == \E i \in 1..Len(sweeps) : sweeps[i].aborted

\* one iteration of SessionCleaner.cleanup_loop: both sweeps, in this order
Reaper(max_inactive_days) ==
    /\ Len(sweeps) < MaxSweeps
    /\ ~ ReaperDead
    /\ LET s1 == cleanup_expired_sessions(Cur, max_inactive_days)
           run == [days |-> max_inactive_days, aborted |-> s1.err # NoVal]
       IN  IF s1.err # NoVal
           THEN Commit([s1 EXCEPT !.sweeps = Append(@, run)])
           ELSE Commit([cleanup_inactive_users(s1, max_inactive_days)
                           EXCEPT !.sweeps = Append(@, run)])

\* ------------------------------------------------------------- environment
\* one second passes, for at most MaxLater seconds: no sleep of a monitor ends
Later ==
    /\ now < Epoch + MaxLater
    /\ Commit([Cur EXCEPT !.now = @ + 1])

\* TIMESTAMP_UPDATE_INTERVAL seconds pass while no call is in flight
Wait ==
    /\ now + TIMESTAMP_UPDATE_INTERVAL
           <= Epoch + MaxLater + MaxWaits * TIMESTAMP_UPDATE_INTERVAL
    /\ \A c \in Calls : touch[c].pc = "idle"
    /\ Commit([Cur EXCEPT !.now = @ + TIMESTAMP_UPDATE_INTERVAL])

\* the exp claim of a bearer token passes: verify_token raises from now on
ExpireToken(token) ==
    /\ token \in tokens
    /\ Commit([Cur EXCEPT !.tokens = @ \ {token}])

\* the TTL of connections:<u> lapses
ExpireConnection(u) ==
    /\ kvConn[u] # EmptyHash
    /\ Commit([Cur EXCEPT !.kvConn[u] = EmptyHash])

\* the TTL of sessions:<id> lapses
ExpireSession(sid) ==
    /\ kvSessions[sid] # NoSession
    /\ Commit([Cur EXCEPT !.kvSessions[sid] = NoSession])

\* -------------------------------------------------------------- ASGI socket
\* WebSocket.close: the close frame is sent once; closing again raises, and
\* every caller swallows that exception.  A peer that has already left does
\* not see the frame.
close(s, w, code, reason) ==
    IF s.ws[w].app # "CONNECTED" THEN s
    ELSE IF s.ws[w].closed_by # NoVal THEN [s EXCEPT !.ws[w].app = "DISCONNECTED"]
    ELSE [s EXCEPT !.ws[w].app = "DISCONNECTED",
                   !.ws[w].closed_by = "server",
                   !.ws[w].close_code = code,
                   !.ws[w].close_reason = reason]

\* WebSocket.send_text / send_bytes raise once a close frame has been sent
CanSend(s, w) == s.ws[w].app = "CONNECTED"

send(s, w, frame_type) ==
    IF CanSend(s, w) THEN [s EXCEPT !.ws[w].sent = Append(@, frame_type)] ELSE s

\* an error reply that also closes the socket
_send_error_closing(s, w) ==
    IF s.ws[w].client = "CONNECTED"
    THEN close(send(s, w, "error"), w, 1008, "Policy violation")
    ELSE s

_send_error(s, w) ==
    IF s.ws[w].client = "CONNECTED" THEN send(s, w, "error") ELSE s

_send_welcome(s, w) ==
    IF s.ws[w].client = "CONNECTED" THEN send(s, w, "connected") ELSE s

_send_pong(s, w) ==
    IF s.ws[w].client = "CONNECTED" THEN send(s, w, "pong") ELSE s

_send_ack(s, w) ==
    IF s.ws[w].client = "CONNECTED"
    THEN [send(s, w, "ack") EXCEPT !.ws[w].run_acks = IF CanSend(s, w) THEN @ + 1 ELSE @]
    ELSE s

\* ----------------------------------------------------------- WS registry
track_ws_connection(s, r, w, user_id, session_id) ==
    [s EXCEPT !.active_connections[r][user_id] =
                  [ws |-> w, session_id |-> session_id, last_seen |-> s.now],
              !.connections_count[r] = @ + 1,
              !.kvConn[user_id] = [session_id |-> session_id, gateway_id |-> r,
                                   ws_connected |-> "1", last_seen |-> "set"]]

registry_update_connection_timestamp(s, r, user_id) ==
    IF /\ s.active_connections[r][user_id] # NoConnInfo
       /\ s.now - s.active_connections[r][user_id].last_seen >= LAST_SEEN_UPDATE_INTERVAL
    THEN [s EXCEPT !.active_connections[r][user_id].last_seen = s.now,
                   !.kvConn[user_id].last_seen = "set"]
    ELSE s

\* the removal that decrements the counter whether or not an entry was found
remove_ws_connection_always_decrements(s, r, user_id, session_id) ==
    LET conn_info == s.active_connections[r][user_id]
        s1 == [s EXCEPT !.active_connections[r][user_id] = NoConnInfo,
                        !.connections_count[r] = @ - 1]
        s2 == IF conn_info # NoConnInfo
              THEN close(s1, conn_info.ws, 1000, "Session ended")
              ELSE s1
    IN  publish([s2 EXCEPT !.kvConn[user_id].ws_connected = NoVal],
                <<"connection:removed", user_id>>, session_id)

remove_ws_connection(s, r, user_id, session_id) ==
    LET conn_info == s.active_connections[r][user_id]
        s1 == IF conn_info # NoConnInfo
              THEN close([s EXCEPT !.active_connections[r][user_id] = NoConnInfo,
                                   !.connections_count[r] = @ - 1],
                         conn_info.ws, 1000, "Session ended")
              ELSE s
    IN  publish([s1 EXCEPT !.kvConn[user_id].ws_connected = NoVal],
                <<"connection:removed", user_id>>, session_id)

\* WebsocketsRegistry.pubsub_listener: one message taken from the subscription
pubsub_listener(s, r) ==
    LET message == Head(s.wsInbox[r])
        user_id == message.channel[2]
        s1 == [s EXCEPT !.wsInbox[r] = Tail(@)]
    IN  IF s1.active_connections[r][user_id] # NoConnInfo
        THEN remove_ws_connection(s1, r, user_id, message.session_id)
        ELSE s1

PubsubListener(r) ==
    /\ wsInbox[r] # <<>>
    /\ Commit(pubsub_listener(Cur, r))


\* -------------------------------------------------------- health monitoring
\* Task.cancel() on a task that has not finished
Cancelled(pc) == IF pc \in {"sleep", "wait"} THEN "cancelled" ELSE pc

_stop_health_monitoring(s, r, user_id) ==
    LET state == s.connection_states[r][user_id]
    IN  IF ~ state.present THEN s
        ELSE [s EXCEPT !.ws = [w \in Sockets |->
                 [@[w] EXCEPT !.ping_pc = IF w = state.ping_task THEN Cancelled(@) ELSE @,
                              !.inact_pc = IF w = state.inactivity_task THEN Cancelled(@) ELSE @]]]

_start_health_monitoring(s, r, user_id, w) ==
    LET s1 == _stop_health_monitoring(s, r, user_id)
        s2 == [s1 EXCEPT !.ws[w].ping_pc = "sleep",
                         !.ws[w].ping_wake = s.now + PING_INTERVAL,
                         !.ws[w].inact_pc = "sleep",
                         !.ws[w].inact_wake = s.now + INACTIVITY_CHECK]
    IN  IF s2.connection_states[r][user_id].present
        THEN [s2 EXCEPT !.connection_states[r][user_id].ping_task = w,
                        !.connection_states[r][user_id].inactivity_task = w]
        ELSE s2

\* the pong test with the bound included
PongTimedOut_inclusive(s, state) ==
    state.present /\ s.now - state.last_pong >= PONG_TIMEOUT

\* the test of _ping_loop after its wait for the pong
PongTimedOut(s, state) ==
    state.present /\ s.now - state.last_pong > PONG_TIMEOUT

\* the test of _inactivity_monitor
InactivityTimedOut(s, state) ==
    state.present /\ s.now - state.last_activity > INACTIVITY_TIMEOUT

\* _ping_loop, from the end of sleep(ping_interval) to the next sleep
_ping_loop_send(s, w) ==
    IF s.ws[w].client # "CONNECTED" \/ ~ CanSend(s, w)
    THEN [s EXCEPT !.ws[w].ping_pc = "done"]
    ELSE [send(s, w, "ping") EXCEPT !.ws[w].ping_pc = "wait",
                                    !.ws[w].ping_wake = s.now + PONG_WAIT]

\* _ping_loop, from the end of sleep(5) to the next sleep
_ping_loop_check(s, w) ==
    LET state == s.connection_states[s.ws[w].replica][s.ws[w].user]
    IN  IF PongTimedOut(s, state)
        THEN [close(s, w, 1008, "Pong timeout") EXCEPT !.ws[w].ping_pc = "done"]
        ELSE IF s.ws[w].client = "CONNECTED"
        THEN [s EXCEPT !.ws[w].ping_pc = "sleep",
                       !.ws[w].ping_wake = s.now + PING_INTERVAL]
        ELSE [s EXCEPT !.ws[w].ping_pc = "done"]

\* _inactivity_monitor, from the end of one sleep(10) to the next
_inactivity_monitor(s, w) ==
    LET state == s.connection_states[s.ws[w].replica][s.ws[w].user]
    IN  IF InactivityTimedOut(s, state)
        THEN [close(s, w, 1008, "Inactivity timeout") EXCEPT !.ws[w].inact_pc = "done"]
        ELSE IF s.ws[w].client = "CONNECTED"
        THEN [s EXCEPT !.ws[w].inact_wake = s.now + INACTIVITY_CHECK]
        ELSE [s EXCEPT !.ws[w].inact_pc = "done"]

_update_activity(s, r, user_id) ==
    IF s.connection_states[r][user_id].present
    THEN [s EXCEPT !.connection_states[r][user_id].last_activity = s.now]
    ELSE s

_update_pong(s, r, user_id) ==
    IF s.connection_states[r][user_id].present
    THEN [s EXCEPT !.connection_states[r][user_id].last_pong = s.now]
    ELSE s

PingSend(w) ==
    /\ ws[w].ping_pc = "sleep"
    /\ now >= ws[w].ping_wake
    /\ Commit(_ping_loop_send(Cur, w))

PingCheck(w) ==
    /\ ws[w].ping_pc = "wait"
    /\ now >= ws[w].ping_wake
    /\ Commit(_ping_loop_check(Cur, w))

InactivityCheck(w) ==
    /\ ws[w].inact_pc = "sleep"
    /\ now >= ws[w].inact_wake
    /\ Commit(_inactivity_monitor(Cur, w))

\* ------------------------------------------------------------ authorization
InList(x, list) == \E i \in 1..Len(list) : list[i] = x

\* the predicate without the rule for open handlers
_is_message_allowed_lists_only(s, r, message_type, user_role) ==
    LET allowed == s.message_permissions[r][user_role]
    IN  InList("*", allowed) \/ InList(message_type, allowed)

_is_message_allowed(s, r, message_type, user_role) ==
    LET allowed == s.message_permissions[r][user_role]
    IN  \/ InList("*", allowed)
        \/ InList(message_type, allowed)
        \/ /\ message_type \in DOMAIN s.ws_handlers[r]
           /\ s.ws_handlers[r][message_type].registered
           /\ ~ s.ws_handlers[r][message_type].require_auth

add_message_permission(s, r, role, message_type) ==
    IF ~ InList(message_type, s.message_permissions[r][role])
    THEN [s EXCEPT !.message_permissions[r][role] = Append(@, message_type)]
    ELSE s

\* list.remove: the first occurrence
RemoveFirst(list, x) ==
    LET i == CHOOSE k \in 1..Len(list) :
                 list[k] = x /\ \A j \in 1..(k - 1) : list[j] # x
    IN  SubSeq(list, 1, i - 1) \o SubSeq(list, i + 1, Len(list))

remove_message_permission(s, r, role, message_type) ==
    IF InList(message_type, s.message_permissions[r][role])
    THEN [s EXCEPT !.message_permissions[r][role] = RemoveFirst(@, message_type)]
    ELSE s

\* URLManager._create_proxy_route: the decorator route_method(route_path)
\* appends an APIRoute to router.routes and returns the function it was
\* applied to; that return value is what _rest_route_refs keeps
_create_proxy_route(s, r, name) ==
    LET route == Endpoint(name)
    IN  [s EXCEPT !.router_routes[r] = Append(@, APIRoute(name)),
                  !.rest_route_refs[r][name] = route]

\* list.remove: the list without the first element equal to x
RemoveRoute(routes, x) ==
    LET i == CHOOSE k \in 1..Len(routes) :
                 routes[k] = x /\ \A j \in 1..(k - 1) : routes[j] # x
    IN  [k \in 1..(Len(routes) - 1) |-> IF k < i THEN routes[k] ELSE routes[k + 1]]

\* URLManager._remove_rest_route
_remove_rest_route(s, r, name) ==
    LET route == s.rest_route_refs[r][name]
        s1 == [s EXCEPT !.rest_route_refs[r][name] = NoRoute]
    IN  IF route # NoRoute /\ \E k \in 1..Len(s.router_routes[r]) :
                                  s.router_routes[r][k] = route
        THEN [s1 EXCEPT !.router_routes[r] = RemoveRoute(@, route)]
        ELSE s1

\* URLManager.register_external_api
register_external_api(s, r, name, require_auth, ws_supported) ==
    LET s1 == [s EXCEPT !.external_apis[r] = @ \cup {name}]
    IN  IF ws_supported
        THEN [s1 EXCEPT !.ws_handlers[r][name] =
                            [registered |-> TRUE, require_auth |-> require_auth]]
        ELSE _create_proxy_route(s1, r, name)

\* DELETE /api/unregister, once the caller has passed the admin check
unregister_api(s, r, name) ==
    IF name \notin s.external_apis[r]
    THEN [s EXCEPT !.err = "404 API not found"]
    ELSE _remove_rest_route(
             [s EXCEPT !.external_apis[r] = @ \ {name},
                       !.ws_handlers[r][name] = NoHandler], r, name)

AddMessagePermission(r, role, message_type) ==
    Commit(add_message_permission(Cur, r, role, message_type))

RemoveMessagePermission(r, role, message_type) ==
    Commit(remove_message_permission(Cur, r, role, message_type))

RegisterExternalApi(r, name, require_auth, ws_supported) ==
    /\ ws_supported \/ Len(router_routes[r]) < MaxRoutes
    /\ Commit(register_external_api(Cur, r, name, require_auth, ws_supported))

UnregisterApi(r, name) ==
    Commit(unregister_api(Cur, r, name))


\* ------------------------------------------------------ batched session write
\* dict.update on the one key of the model: a dictionary without "api_key"
\* (NoVal) leaves the value there is
dict_update(value, updates) == IF updates = NoVal THEN value ELSE updates

\* an update_session whose merge keeps the value of the first call
update_session_first_wins(s, r, user_id, session_id, key) ==
    IF s.pending_updates[r][session_id] = NoPending
    THEN [s EXCEPT !.pending_updates[r][session_id] =
                       [user_id |-> user_id, api_key |-> key, last_access |-> s.now]]
    ELSE [s EXCEPT !.pending_updates[r][session_id].api_key = dict_update(key, @),
                   !.pending_updates[r][session_id].last_access = s.now]

\* SessionHandler.update_session with updates = {"api_key": key}, or {} when
\* key is NoVal
update_session(s, r, user_id, session_id, key) ==
    IF s.pending_updates[r][session_id] = NoPending
    THEN [s EXCEPT !.pending_updates[r][session_id] =
                       [user_id |-> user_id, api_key |-> key, last_access |-> s.now]]
    ELSE [s EXCEPT !.pending_updates[r][session_id].api_key = dict_update(@, key),
                   !.pending_updates[r][session_id].last_access = s.now]

\* one round of SessionHandler._batch_writer
RECURSIVE publish_updates(_, _, _, _)
publish_updates(s, to_process, written, k) ==
    IF k = 0 THEN s
    ELSE LET s1 == publish_updates(s, to_process, written, k - 1)
         IN  IF k \in written
             THEN publish(s1, <<"session:update", to_process[k].user_id>>, k)
             ELSE s1

\* a batch writer that also writes the caller of update into the record
_batch_writer_rebinding(s, r) ==
    LET to_process == s.pending_updates[r]
        written == {k \in SessionIds : to_process[k] # NoPending /\ s.kvSessions[k] # NoSession}
    IN  publish_updates(
            [s EXCEPT !.pending_updates[r] = [k \in ClientSids |-> NoPending],
                      !.kvSessions = [k \in SessionIds |->
                                         IF k \in written
                                         THEN [@[k] EXCEPT !.user_id = to_process[k].user_id,
                                                           !.api_key = dict_update(@, to_process[k].api_key),
                                                           !.last_access = to_process[k].last_access]
                                         ELSE @[k]]],
            to_process, written, MaxSessions)

_batch_writer(s, r) ==
    LET to_process == s.pending_updates[r]
        written == {k \in SessionIds : to_process[k] # NoPending /\ s.kvSessions[k] # NoSession}
    IN  publish_updates(
            [s EXCEPT !.pending_updates[r] = [k \in ClientSids |-> NoPending],
                      !.kvSessions = [k \in SessionIds |->
                                         IF k \in written
                                         THEN [@[k] EXCEPT !.api_key = dict_update(@, to_process[k].api_key),
                                                           !.last_access = to_process[k].last_access]
                                         ELSE @[k]]],
            to_process, written, MaxSessions)

BatchWriter(r) ==
    /\ \E k \in ClientSids : pending_updates[r][k] # NoPending
    /\ Commit(_batch_writer(Cur, r))

\* a snapshot that copies the queue and leaves it as it was
FlushSnapshot_without_clear(r) ==
    /\ flush[r].pc = "idle"
    /\ flush[r].tasks = {}
    /\ \E k \in ClientSids : pending_updates[r][k] # NoPending
    /\ Commit([Cur EXCEPT !.flush[r] = [NoFlush EXCEPT !.pc = "get",
                                                       !.to_process = pending_updates[r]]])

\* The same round, one step per await.  First the snapshot under the lock.
FlushSnapshot(r) ==
    /\ flush[r].pc = "idle"
    /\ flush[r].tasks = {}
    /\ \E k \in ClientSids : pending_updates[r][k] # NoPending
    /\ Commit([Cur EXCEPT !.flush[r] = [NoFlush EXCEPT !.pc = "get",
                                                       !.to_process = pending_updates[r]],
                          !.pending_updates[r] = [k \in ClientSids |-> NoPending]])

\* The pipelined GET and the loop over its results: a SET is queued and a
\* publish task created for every session that has a record.  json.loads
\* raises on the record of session unreadable (NoSid: on none); the round then
\* ends in the except clause with the tasks created for the sessions before
\* it, the sessions of the snapshot that the loop had already passed.
FlushGet(r, unreadable, before) ==
    /\ flush[r].pc = "get"
    /\ LET to_process == flush[r].to_process
           found == {k \in SessionIds : to_process[k] # NoPending /\ kvSessions[k] # NoSession}
       IN  IF unreadable = NoSid
           THEN /\ before = {}
                /\ Commit([Cur EXCEPT
                       !.flush[r].pc = "execute",
                       !.flush[r].writes =
                           [k \in SessionIds |->
                               IF k \in found
                               THEN [kvSessions[k] EXCEPT
                                        !.api_key = dict_update(@, to_process[k].api_key),
                                        !.last_access = to_process[k].last_access]
                               ELSE NoSession],
                       !.flush[r].tasks = found])
           ELSE /\ unreadable \in found
                /\ before \subseteq found \ {unreadable}
                /\ Commit([Cur EXCEPT !.flush[r].pc = "idle", !.flush[r].tasks = before])

\* await pipe.execute(): the queued SETs reach the KV, or the call raises and
\* the round ends in the except clause
FlushExecute(r, ok) ==
    /\ flush[r].pc = "execute"
    /\ Commit([Cur EXCEPT
           !.flush[r].pc = "idle",
           !.kvSessions = [k \in SessionIds |->
                              IF ok /\ flush[r].writes[k] # NoSession
                              THEN flush[r].writes[k] ELSE @[k]]])

\* a task made by asyncio.create_task in the loop runs: it publishes
\* events:session:update:<user> for session k
FlushPublish(r, k) ==
    /\ k \in flush[r].tasks
    /\ Commit(publish([Cur EXCEPT !.flush[r].tasks = @ \ {k}],
                      <<"session:update", flush[r].to_process[k].user_id>>, k))

\* update_session_route behind check_session_owner, with data = {"api_key": key}
update_session_route(s, r, user_id, principal_sid, session_id, key) ==
    IF principal_sid # session_id
    THEN [s EXCEPT !.err = "403 Session access denied"]
    ELSE publish(update_session(s, r, user_id, session_id, key),
                 <<"session:update", user_id>>, session_id)

\* POST /sessions/update/{session_id}
SessionsUpdate(r, u, session_id, key) ==
    /\ TokenOf(u) # {}
    /\ DepMints(Cur, u) => CanMint(Cur)
    /\ LET s1 == get_current_user_with_activity(Cur, r, u)
       IN  IF s1.err # NoVal THEN Commit(s1)
           ELSE Commit(update_session_route(s1, r, u, s1.retSid, session_id, key))

\* ------------------------------------------------------------ message cache
_is_duplicate_message(s, r, user_id, session_id, message_data) ==
    LET cached_msg == s.message_cache[r][<<user_id, session_id>>]
    IN  /\ cached_msg # NoCachedMessage
        /\ cached_msg.message_data = message_data
        /\ s.now - cached_msg.timestamp < CACHE_TTL

_cache_message(s, r, user_id, session_id, message_data) ==
    [s EXCEPT !.message_cache[r][<<user_id, session_id>>] =
                  [message_data |-> message_data, timestamp |-> s.now]]

_cleanup_user_cache(s, r, user_id, session_id) ==
    [s EXCEPT !.message_cache[r][<<user_id, session_id>>] = NoCachedMessage]

\* --------------------------------------------------------- message handling
_process_api_key_update(s, w, key) ==
    [update_session(s, s.ws[w].replica, s.ws[w].user, s.ws[w].session_id, key)
        EXCEPT !.ws[w].run_enq = @ + 1]

_handle_api_key_update(s, w, key) ==
    LET r == s.ws[w].replica
        user_id == s.ws[w].user
        session_id == s.ws[w].session_id
    IN  IF _is_duplicate_message(s, r, user_id, session_id, key)
        THEN _send_ack(s, w)
        ELSE _process_api_key_update(
                 _send_ack(_cache_message(s, r, user_id, session_id, key), w), w, key)

\* the proxy handler of a registered API: the upstream answers or fails
_handle_dynamic_message(s, w, msg_type, upstream_ok) ==
    IF upstream_ok THEN send(s, w, "response") ELSE _send_error(s, w)

handle_ws_message(s, w, msg, upstream_ok) ==
    LET r == s.ws[w].replica
    IN  IF msg.type = InvalidJson THEN _send_error(s, w)
        ELSE IF msg.type = MissingType THEN _send_error(s, w)
        ELSE IF msg.type = "pong" THEN _update_pong(s, r, s.ws[w].user)
        ELSE IF msg.type = "ping" THEN _send_pong(s, w)
        ELSE IF ~ _is_message_allowed(s, r, msg.type, s.ws[w].role) THEN _send_error(s, w)
        ELSE IF msg.type = "update_api_key" THEN _handle_api_key_update(s, w, msg.key)
        ELSE IF s.ws_handlers[r][msg.type].registered
        THEN _handle_dynamic_message(s, w, msg.type, upstream_ok)
        ELSE _send_error(s, w)

\* SessionManager.verify_and_update_activity; err is the HTTP error raised
verify_and_update_activity(s, r, token, expected_session_id) ==
    IF token \notin s.tokens THEN [s EXCEPT !.err = "401 Invalid token"]
    ELSE LET conn == get_connection_info(s, token.user)
         IN  IF conn = EmptyHash THEN [s EXCEPT !.err = "400 No active session"]
             ELSE IF expected_session_id # NoSid /\ conn.session_id # expected_session_id
             THEN [s EXCEPT !.err = "400 Session mismatch"]
             ELSE update_timestamp_only(update_connection_timestamp(s, r, token.user),
                                        r, conn.session_id)

\* what the client has sent so far, kept to state the properties of a socket:
\* the time of its last frame, of its last frame that is not a pong, of its
\* last pong, and its current run of update_api_key frames with one key
Sent(s, w, msg) ==
    LET same == msg.type = "update_api_key" /\ msg.key = s.ws[w].run_key
    IN  [s EXCEPT !.ws[w].received = @ + 1,
                  !.ws[w].last_frame = s.now,
                  !.ws[w].last_other = IF msg.type = "pong" THEN @ ELSE s.now,
                  !.ws[w].last_own_pong = IF msg.type = "pong" THEN s.now ELSE @,
                  !.ws[w].run_key = IF msg.type = "update_api_key" THEN msg.key ELSE @,
                  !.ws[w].run_len = IF msg.type # "update_api_key" THEN @
                                    ELSE IF same THEN @ + 1 ELSE 1,
                  !.ws[w].run_acks = IF msg.type # "update_api_key" \/ same THEN @ ELSE 0,
                  !.ws[w].run_enq = IF msg.type # "update_api_key" \/ same THEN @ ELSE 0]

\* one iteration of _message_loop on a websocket.receive message
_message_loop(s, w, msg, upstream_ok) ==
    LET r == s.ws[w].replica
        user_id == s.ws[w].user
        s1 == _update_activity(Sent(s, w, msg), r, user_id)
        s2 == registry_update_connection_timestamp(s1, r, user_id)
        s3 == handle_ws_message(s2, w, msg, upstream_ok)
        s4 == verify_and_update_activity(s3, r, [user |-> user_id, role |-> s.ws[w].role],
                                         s.ws[w].session_id)
    IN  IF s.now - s.ws[w].last_session_update < SESSION_UPDATE_INTERVAL THEN s3
        ELSE IF s4.err # NoVal THEN s3
        ELSE [s4 EXCEPT !.ws[w].last_session_update = s.now]

\* the frames received so far by the sockets 1..w
RECURSIVE Received(_)
Received(w) == IF w = 0 THEN 0 ELSE ws[w].received + Received(w - 1)

Receive(w, msg, upstream_ok) ==
    /\ ws[w].phase = "loop"
    /\ ws[w].app = "CONNECTED"
    /\ Received(MaxSockets) < MaxFrames
    /\ Commit(_message_loop(Cur, w, msg, upstream_ok))

\* ------------------------------------------------------------ HTTP client
\* CircuitBreaker.opened: the state is open and the recovery timeout has not
\* run out; an open breaker whose timeout has run out is half-open
Opened(s, r) ==
    /\ s.circuit_breaker[r].state = "open"
    /\ (s.circuit_breaker[r].opened + CIRCUIT_RECOVERY_TIMEOUT) - s.now > 0

call_succeeded(s, r) == [s EXCEPT !.circuit_breaker[r] = ClosedBreaker]

call_failed(s, r) ==
    LET failure_count == s.circuit_breaker[r].failure_count + 1
    IN  IF failure_count >= CIRCUIT_FAILURE_THRESHOLD
        THEN [s EXCEPT !.circuit_breaker[r] =
                 [state |-> "open", failure_count |-> failure_count, opened |-> s.now]]
        ELSE [s EXCEPT !.circuit_breaker[r].failure_count = failure_count]

\* wait_exponential(multiplier, min, max), after the attempt_number-th attempt
wait_exponential(attempt_number) ==
    LET exp == RETRY_MULTIPLIER * 2 ^ (attempt_number - 1)
        capped == IF exp < RETRY_MAX_WAIT THEN exp ELSE RETRY_MAX_WAIT
    IN  IF capped > RETRY_MIN_WAIT THEN capped ELSE RETRY_MIN_WAIT

\* the exceptions that leave make_request and that the retry decorator
\* retries: a status below 500 is caught and returned
Retried(outcome) ==
    \/ outcome \in {"timeout", "network"}
    \/ outcome \in StatusErrors /\ StatusCode(outcome) >= 500

\* make_request, and around it the retry decorator, once the attempt of
\* call c has ended in outcome
make_request_end(s, c, outcome) ==
    LET call == s.requests[c]
    IN  IF outcome = "ok"
        THEN [s EXCEPT !.requests[c].pc = "done", !.requests[c].result = "ok"]
        ELSE IF outcome \in StatusErrors /\ StatusCode(outcome) < 500
        THEN [s EXCEPT !.requests[c].pc = "done",
                       !.requests[c].result = "HTTP_" \o outcome]
        ELSE IF Retried(outcome) /\ call.attempt_number < RETRY_ATTEMPTS
        THEN [s EXCEPT !.requests[c].pc = "attempt",
                       !.requests[c].attempt_number = @ + 1,
                       !.requests[c].wake = s.now + wait_exponential(call.attempt_number)]
        ELSE [s EXCEPT !.requests[c].pc = "done", !.requests[c].result = "raised"]

EchoFrame == [type |-> "echo", key |-> NoVal]

\* a proxy handler calls make_request: the WS proxy handler of "echo" for a
\* frame of socket w, whose receive loop waits for it, or the REST proxy
\* route of "foo" (w = NoSock)
ProxyCall(c, r, w) ==
    /\ requests[c].pc = "idle"
    /\ \A d \in Requests : d < c => requests[d].pc # "idle"
    /\ Cardinality({d \in Requests : requests[d].pc \in {"attempt", "inflight", "done"}})
           < MaxInFlight
    /\ IF w = NoSock
       THEN \E k \in 1..Len(router_routes[r]) : router_routes[r][k].path = "foo"
       ELSE /\ ws[w].phase = "loop"
            /\ ws[w].app = "CONNECTED"
            /\ ws[w].replica = r
            /\ Received(MaxSockets) < MaxTimedFrames
            /\ ws_handlers[r]["echo"].registered
            /\ _is_message_allowed(Cur, r, "echo", ws[w].role)
            /\ \A d \in Requests : requests[d].pc = "returned" \/ requests[d].socket # w
    /\ Commit([Cur EXCEPT !.requests[c] =
                  [pc |-> "attempt", replica |-> r, socket |-> w,
                   attempt_number |-> 1, wake |-> now, trial |-> FALSE,
                   result |-> NoVal]])

\* CircuitBreaker.state is half-open
HalfOpen(s, r) == s.circuit_breaker[r].state = "open" /\ ~ Opened(s, r)

\* an attempt starts: the breaker lets it through to _execute_request, or
\* raises CircuitBreakerError, which make_request turns into its answer.
\* trial: the attempt was let through by a half-open breaker.
AttemptBegin(c) ==
    /\ requests[c].pc = "attempt"
    /\ requests[c].wake <= now
    /\ Commit(IF Opened(Cur, requests[c].replica)
              THEN [Cur EXCEPT !.requests[c].pc = "done",
                               !.requests[c].result = "CIRCUIT_BREAKER_OPEN"]
              ELSE [Cur EXCEPT !.requests[c].pc = "inflight",
                               !.requests[c].trial =
                                   HalfOpen(Cur, requests[c].replica)])

\* the attempt ends: the breaker counts it, make_request answers or raises
AttemptEnd(c, outcome) ==
    LET r == requests[c].replica
    IN  /\ requests[c].pc = "inflight"
        /\ Commit(make_request_end(IF outcome = "ok" THEN call_succeeded(Cur, r)
                                   ELSE call_failed(Cur, r), c, outcome))

\* make_request has returned or raised: the proxy handler answers.  The
\* frame of a socket is accounted for here, with the answer of its handler.
ProxyReturn(c) ==
    LET w == requests[c].socket
        s1 == [Cur EXCEPT !.requests[c] = [NoRequest EXCEPT !.pc = "returned"]]
    IN  /\ requests[c].pc = "done"
        /\ Commit(IF w = NoSock THEN s1
                  ELSE _message_loop(s1, w, EchoFrame, requests[c].result = "ok"))

\* the last second in which the open breaker of replica r is not half-open
LastOpen(s, r) == s.circuit_breaker[r].opened + CIRCUIT_RECOVERY_TIMEOUT - 1

\* one second passes while a retry sleeps or an open breaker is about to
\* recover; the sleep of a retry ends on time
Second ==
    /\ now < Epoch + MaxSeconds
    /\ \A c \in Requests : requests[c].pc = "attempt" => requests[c].wake > now
    /\ \A c \in Requests : requests[c].pc # "done"
    /\ \/ \E c \in Requests : requests[c].pc = "attempt"
       \/ \E r \in Replicas : Opened(Cur, r) /\ now >= LastOpen(Cur, r)
    /\ Commit([Cur EXCEPT !.now = @ + 1])

\* nothing happens until the last second in which the breaker is open
Recover(r) ==
    /\ Opened(Cur, r)
    /\ now < LastOpen(Cur, r)
    /\ LastOpen(Cur, r) <= Epoch + MaxSeconds
    /\ \A c \in Requests : requests[c].pc \in {"idle", "returned", "inflight"}
    /\ Commit([Cur EXCEPT !.now = LastOpen(Cur, r)])

\* ------------------------------------------------------ connection handler
\* the finally block of ws_connect
ws_cleanup(s, w) ==
    LET r == s.ws[w].replica
        user_id == s.ws[w].user
        session_id == s.ws[w].session_id
        s1 == _stop_health_monitoring(s, r, user_id)
        s2 == [s1 EXCEPT !.connection_states[r][user_id] = NoHealth]
        s3 == _cleanup_user_cache(s2, r, user_id, session_id)
    IN  [remove_ws_connection(s3, r, user_id, session_id) EXCEPT !.ws[w].phase = "done"]

\* the ownership check applied only to a record that has a socket attached
SessionMismatch_ws_only(conn_info, session_id) ==
    /\ conn_info # EmptyHash
    /\ conn_info.ws_connected = "1"
    /\ conn_info.session_id # session_id

\* AUTH CHECK 3 of ws_connect
SessionMismatch(conn_info, session_id) ==
    conn_info # EmptyHash /\ conn_info.session_id # session_id

\* GET /ws/connect, from accept to the first receive() of the message loop
ws_connect(s, r, w, token, session_id) ==
    LET s0 == [s EXCEPT !.ws[w] = [FreeSocket EXCEPT !.phase = "done",
                                                     !.replica = r,
                                                     !.session_id = session_id,
                                                     !.app = "CONNECTED",
                                                     !.client = "CONNECTED"]]
        user_id == token.user
        conn_info == get_connection_info(s0, user_id)
        s1 == [s0 EXCEPT !.ws[w].user = user_id, !.ws[w].role = token.role]
        s2 == track_ws_connection(s1, r, w, user_id, session_id)
        s3 == [s2 EXCEPT !.connection_states[r][user_id] =
                             [present |-> TRUE, last_activity |-> s.now,
                              last_pong |-> s.now, ping_task |-> NoSock,
                              inactivity_task |-> NoSock]]
        s4 == _send_welcome(_start_health_monitoring(s3, r, user_id, w), w)
    IN  IF token \notin s.tokens THEN close(s0, w, 1008, "Invalid token")
        ELSE IF SessionMismatch(conn_info, session_id)
        THEN close(s1, w, 1008, "Session mismatch")
        ELSE [s4 EXCEPT !.ws[w].phase = "loop",
                        !.ws[w].last_session_update = s.now,
                        !.ws[w].last_frame = s.now,
                        !.ws[w].last_other = s.now,
                        !.ws[w].last_own_pong = s.now]

\* sockets are taken in order: socket w is the w-th handshake
WsConnect(r, w, token, session_id) ==
    /\ ws[w].phase = "free"
    /\ \A v \in Sockets : v < w => ws[v].phase # "free"
    /\ Commit(ws_connect(Cur, r, w, token, session_id))

\* the client connects with the session id its login returned
ConnectAfterLogin(r, w, token) ==
    /\ kvConn[token.user].session_id \in SessionIds
    /\ WsConnect(r, w, token, kvConn[token.user].session_id)

\* a frame of a client that sends at most MaxTimedFrames frames
ReceiveTimed(w, msg) ==
    /\ Received(MaxSockets) < MaxTimedFrames
    /\ Receive(w, msg, TRUE)

\* the client closes: receive() returns websocket.disconnect, the loop breaks
ClientDisconnect(w) ==
    /\ ws[w].phase = "loop"
    /\ ws[w].app = "CONNECTED"
    /\ Commit(ws_cleanup([Cur EXCEPT !.ws[w].client = "DISCONNECTED",
                                     !.ws[w].closed_by = "client"], w))

\* the server has sent a close frame: receive() returns websocket.disconnect
CloseDelivered(w) ==
    /\ ws[w].phase = "loop"
    /\ ws[w].app = "DISCONNECTED"
    /\ Commit(ws_cleanup([Cur EXCEPT !.ws[w].client = "DISCONNECTED"], w))

\* ------------------------------------------------------------------- time
TimerDue(s) ==
    \E w \in Sockets :
        \/ s.ws[w].ping_pc \in {"sleep", "wait"} /\ s.ws[w].ping_wake <= s.now
        \/ s.ws[w].inact_pc = "sleep" /\ s.ws[w].inact_wake <= s.now

\* work the event loop does without waiting: a flush of the batch writer
\* (every 100 ms), the delivery of a published message and of a close
Busy(s) ==
    \/ \E r \in Replicas, k \in ClientSids : s.pending_updates[r][k] # NoPending
    \/ \E r \in Replicas : s.wsInbox[r] # <<>>
    \/ \E r \in Replicas : s.eventInbox[r] # <<>>
    \/ \E w \in Sockets : s.ws[w].phase = "loop" /\ s.ws[w].app = "DISCONNECTED"

\* TickStep seconds pass; a sleeping task runs when its sleep ends.  The
\* clock of the model starts with the first handshake.
Tick ==
    /\ now + TickStep <= Epoch + TickStep * MaxTicks
    /\ ws[1].phase # "free"
    /\ ~ TimerDue(Cur)
    /\ ~ Busy(Cur)
    /\ Commit([Cur EXCEPT !.now = @ + TickStep])

\* ---------------------------------------------------------- specification
\* the state after construction
Boot ==
    [now |-> Epoch,
     kvUsers |-> [u \in Users |-> NoUser],
     kvSessions |-> [k \in SessionIds |-> NoSession],
     kvConn |-> [u \in Users |-> EmptyHash],
     nextSid |-> 1,
     tokens |-> {},
     users_cache |-> [r \in Replicas |-> [u \in Users |-> NoUser]],
     session_cache |-> [r \in Replicas |-> [k \in SessionIds |-> NoCached]],
     last_timestamp_updates |-> [r \in Replicas |-> [k \in SessionIds |-> 0]],
     last_connection_updates |-> [r \in Replicas |-> [u \in Users |-> 0]],
     pending_updates |-> [r \in Replicas |-> [k \in ClientSids |-> NoPending]],
     published |-> {},
     wsInbox |-> [r \in Replicas |-> <<>>],
     eventInbox |-> [r \in Replicas |-> <<>>],
     ws |-> [w \in Sockets |-> FreeSocket],
     active_connections |-> [r \in Replicas |-> [u \in Users |-> NoConnInfo]],
     connections_count |-> [r \in Replicas |-> 0],
     connection_states |-> [r \in Replicas |-> [u \in Users |-> NoHealth]],
     message_cache |-> [r \in Replicas |-> [k \in Users \X ClientSids |-> NoCachedMessage]],
     message_permissions |-> [r \in Replicas |-> DefaultPermissions],
     ws_handlers |-> [r \in Replicas |-> [t \in MsgTypes |-> NoHandler]],
     external_apis |-> [r \in Replicas |-> {}],
     logins |-> [u \in Users |-> <<>>],
     sweeps |-> <<>>,
     touch |-> [c \in Calls |-> NoCall],
     touch_writes |-> <<>>,
     router_routes |-> [r \in Replicas |-> <<>>],
     rest_route_refs |-> [r \in Replicas |-> [n \in MsgTypes |-> NoRoute]],
     circuit_breaker |-> [r \in Replicas |-> ClosedBreaker],
     requests |-> [c \in Requests |-> NoRequest],
     session_response |-> NoResponse,
     flush |-> [r \in Replicas |-> NoFlush],
     retSid |-> NoSid, retSession |-> NoSession, retUser |-> NoUser, err |-> NoVal]

\* the state Register("A", "alice", "pw") and Login("A", "alice", "pw") lead to
LoggedIn ==
    LET user_data == [password |-> "pw", role |-> "user", last_login |-> Epoch]
        s1 == save_user_to_redis(Boot, "A", "alice", user_data)
    IN  [login(s1, "A", "alice", user_data) EXCEPT !.published = {}, !.retSid = NoSid]

\* ... and then Register("A", "*", "pw") and Login("A", "*", "pw")
BothLoggedIn ==
    LET user_data == [password |-> "pw", role |-> "user", last_login |-> Epoch]
        s1 == save_user_to_redis(LoggedIn, "A", "*", user_data)
    IN  [login(s1, "A", "*", user_data) EXCEPT !.published = {}, !.retSid = NoSid]

\* ... and then the registration of the open WS handler "echo"
WithHandler == register_external_api(LoggedIn, "A", "echo", FALSE, TRUE)

StartsAs(s) ==
    /\ now = s.now
    /\ kvUsers = s.kvUsers
    /\ kvSessions = s.kvSessions
    /\ kvConn = s.kvConn
    /\ nextSid = s.nextSid
    /\ tokens = s.tokens
    /\ users_cache = s.users_cache
    /\ session_cache = s.session_cache
    /\ last_timestamp_updates = s.last_timestamp_updates
    /\ last_connection_updates = s.last_connection_updates
    /\ pending_updates = s.pending_updates
    /\ published = s.published
    /\ wsInbox = s.wsInbox
    /\ eventInbox = s.eventInbox
    /\ ws = s.ws
    /\ active_connections = s.active_connections
    /\ connections_count = s.connections_count
    /\ connection_states = s.connection_states
    /\ message_cache = s.message_cache
    /\ message_permissions = s.message_permissions
    /\ ws_handlers = s.ws_handlers
    /\ external_apis = s.external_apis
    /\ logins = s.logins
    /\ sweeps = s.sweeps
    /\ touch = s.touch
    /\ touch_writes = s.touch_writes
    /\ router_routes = s.router_routes
    /\ rest_route_refs = s.rest_route_refs
    /\ circuit_breaker = s.circuit_breaker
    /\ requests = s.requests
    /\ session_response = s.session_response
    /\ flush = s.flush

Init == StartsAs(Boot)

\* the HTTP routes of the session service, on every replica
Next ==
    \/ \E r \in Replicas : Register(r, "alice", "pw")
    \/ \E r \in Replicas, pw \in Passwords : Login(r, "alice", pw)
    \/ \E r \in Replicas : Logout(r, "alice")
    \/ \E r \in Replicas : DeleteAccount(r, "alice")
    \/ \E r \in Replicas, sid \in ClientSids \cup {NoSid} : SessionsCreate(r, "alice", sid)
    \/ \E r \in Replicas : AuthenticatedCall(r, "alice")
    \/ ExpireConnection("alice")
    \/ \E sid \in SessionIds : ExpireSession(sid)

Spec == Init /\ [][Next]_vars

\* logins and logouts on replica A, sockets on replica B, the listeners of both
NextLogout ==
    \/ \E u \in Users : Register("A", u, "pw")
    \/ \E u \in Users : Login("A", u, "pw")
    \/ \E u \in Users : Logout("A", u)
    \/ \E w \in Sockets, t \in tokens : ConnectAfterLogin("B", w, t)
    \/ \E w \in Sockets : ClientDisconnect(w)
    \/ \E w \in Sockets : CloseDelivered(w)
    \/ \E r \in Replicas : PubsubListener(r)

SpecLogout == Init /\ [][NextLogout]_vars

\* the frames of a client: a type and, for update_api_key, a key
Frames ==
    {[type |-> t, key |-> NoVal] : t \in FrameTypes \ {"update_api_key"}}
        \cup {[type |-> "update_api_key", key |-> k] : k \in Keys}

\* the sockets of a logged-in user on one replica, before any timer runs out
NextFrames ==
    \/ \E w \in Sockets, t \in tokens \cup {NoToken}, sid \in 0..2 : WsConnect("A", w, t, sid)
    \/ \E w \in Sockets, msg \in Frames, ok \in BOOLEAN : Receive(w, msg, ok)
    \/ \E w \in Sockets : ClientDisconnect(w)
    \/ \E w \in Sockets : CloseDelivered(w)
    \/ BatchWriter("A")

SpecFrames == StartsAs(WithHandler) /\ [][NextFrames]_vars

\* the same sockets as time passes: the two monitors of each socket
TimedFrames == {f \in Frames : f.type \notin {"ping", "update_api_key", "echo"}}

NextWs ==
    \/ \E w \in Sockets, t \in tokens : WsConnect("A", w, t, 1)
    \/ \E w \in Sockets, msg \in TimedFrames : ReceiveTimed(w, msg)
    \/ \E w \in Sockets : ClientDisconnect(w)
    \/ \E w \in Sockets : CloseDelivered(w)
    \/ \E w \in Sockets : PingSend(w)
    \/ \E w \in Sockets : PingCheck(w)
    \/ \E w \in Sockets : InactivityCheck(w)
    \/ Tick

SpecWs == StartsAs(LoggedIn) /\ [][NextWs]_vars

\* one socket as time passes, fed with frames, while its token expires
NextVerify ==
    \/ \E t \in tokens : WsConnect("A", 1, t, 1)
    \/ \E msg \in TimedFrames : Receive(1, msg, TRUE)
    \/ CloseDelivered(1)
    \/ PingSend(1)
    \/ PingCheck(1)
    \/ InactivityCheck(1)
    \/ \E t \in tokens : ws[1].phase = "loop" /\ ExpireToken(t)
    \/ Tick

SpecVerify == StartsAs(LoggedIn) /\ [][NextVerify]_vars

\* the permission tables of one replica
PermTypes == {"chat_message", "echo", "*"}

NextPerm ==
    \/ \E role \in Roles, t \in PermTypes : AddMessagePermission("A", role, t)
    \/ \E role \in Roles, t \in PermTypes : RemoveMessagePermission("A", role, t)
    \/ \E a \in BOOLEAN : RegisterExternalApi("A", "echo", a, TRUE)
    \/ UnregisterApi("A", "echo")

SpecPerm == Init /\ [][NextPerm]_vars

\* the administrative routes of the URL manager, on both replicas: REST and
\* WS proxies are registered and unregistered
ApiNames == {"echo", "foo"}

NextRoutes ==
    \/ \E r \in Replicas, name \in ApiNames, a \in BOOLEAN, w \in BOOLEAN :
           RegisterExternalApi(r, name, a, w)
    \/ \E r \in Replicas, name \in ApiNames : UnregisterApi(r, name)

SpecRoutes == Init /\ [][NextRoutes]_vars

\* ... and then the registration of the REST proxy "foo" and the handshake
\* of alice's socket
WithProxies ==
    ws_connect(register_external_api(WithHandler, "A", "foo", FALSE, FALSE),
               "A", 1, [user |-> "alice", role |-> "user"], 1)

\* the upstream calls of replica A: alice's socket sends "echo" frames and
\* REST requests reach /api/proxy/foo
NextHttpx ==
    \/ \E c \in Requests, w \in {NoSock, 1} : ProxyCall(c, "A", w)
    \/ \E c \in Requests : AttemptBegin(c)
    \/ \E c \in Requests, outcome \in Outcomes : AttemptEnd(c, outcome)
    \/ \E c \in Requests : ProxyReturn(c)
    \/ Second
    \/ Recover("A")

SpecHttpx == StartsAs(WithProxies) /\ [][NextHttpx]_vars

\* the account of the user named "*" on both replicas, the sockets of that
\* user on replica A, the batch writer and the listeners
KeyFrames == {f \in Frames : f.type = "update_api_key" /\ f.key = "k1"}

NextUsers ==
    \/ \E r \in Replicas : Register(r, "*", "pw")
    \/ \E r \in Replicas : Login(r, "*", "pw")
    \/ \E r \in Replicas : DeleteAccount(r, "*")
    \/ \E w \in Sockets, t \in tokens : ConnectAfterLogin("A", w, t)
    \/ \E w \in Sockets, msg \in KeyFrames : Receive(w, msg, TRUE)
    \/ \E w \in Sockets : ClientDisconnect(w)
    \/ \E w \in Sockets : CloseDelivered(w)
    \/ BatchWriter("A")
    \/ \E r \in Replicas : PubsubListener(r)
    \/ \E r \in Replicas : EventListener(r)

SpecUsers == Init /\ [][NextUsers]_vars

\* the account of the user named "*" on replica A, the sockets of that user
\* on replica B, and the reaper
NextReaper ==
    \/ Register("A", "*", "pw")
    \/ Login("A", "*", "pw")
    \/ DeleteAccount("A", "*")
    \/ \E w \in Sockets, t \in tokens : ConnectAfterLogin("B", w, t)
    \/ \E w \in Sockets : ClientDisconnect(w)
    \/ \E w \in Sockets : CloseDelivered(w)
    \/ \E r \in Replicas : PubsubListener(r)
    \/ \E days \in 0..MaxInactiveDays : Reaper(days)
    \/ Later

SpecReaper == Init /\ [][NextReaper]_vars

\* alice is logged in on replica A; her requests and frames reach both
\* replicas, MaxCalls of them at a time
NextTouch ==
    \/ \E c \in Calls, r \in Replicas : Touch(c, r, "alice")
    \/ \E c \in Calls : TouchGet(c)
    \/ \E c \in Calls : TouchSet(c)
    \/ \E c \in Calls : TouchRecord(c)
    \/ Later
    \/ Wait

SpecTouch == StartsAs(LoggedIn) /\ [][NextTouch]_vars

\* one logged-in user and two replicas: POST /sessions/create on replica A,
\* an update flushed by replica B behind the cache of replica A, and the clock
NextCache ==
    \/ \E sid \in SessionIds : SessionsCreate("A", "alice", sid)
    \/ SessionsUpdate("B", "alice", 1, "k2")
    \/ BatchWriter("B")
    \/ Later
    \/ Wait

SpecCache == StartsAs(LoggedIn) /\ [][NextCache]_vars

\* the listener has taken every published message from its subscription
Delivered == \A r \in Replicas : eventInbox[r] = <<>>

\* two logged-in users who share session 1 on replica A: alice's updates carry
\* the key "k1", the other user's the key "k2" or no key at all
NextFlush ==
    \/ Delivered /\ SessionsCreate("A", "*", 1)
    \/ Delivered /\ SessionsUpdate("A", "alice", 1, "k1")
    \/ \E key \in {"k2", NoVal} : Delivered /\ SessionsUpdate("A", "*", 1, key)
    \/ Delivered /\ BatchWriter("A")
    \/ Delivered /\ Later
    \/ \E r \in Replicas : EventListener(r)

SpecFlush == StartsAs(BothLoggedIn) /\ [][NextFlush]_vars

\* two logged-in users on replica A, their updates over HTTP and over a
\* socket, and the batch writer one await at a time: its pipelined GET may
\* meet an unreadable record, its pipelined SET may fail
NextWriter ==
    \/ \E u \in Users, sid \in SessionIds : Delivered /\ SessionsUpdate("A", u, sid, "k2")
    \/ \E t \in tokens : Delivered /\ ConnectAfterLogin("A", 1, t)
    \/ \E msg \in KeyFrames : Delivered /\ Receive(1, msg, TRUE)
    \/ Delivered /\ FlushSnapshot("A")
    \/ \E unreadable \in SessionIds \cup {NoSid}, before \in SUBSET SessionIds :
           Delivered /\ FlushGet("A", unreadable, before)
    \/ \E ok \in BOOLEAN : Delivered /\ FlushExecute("A", ok)
    \/ \E k \in SessionIds : Delivered /\ FlushPublish("A", k)
    \/ \E r \in Replicas : EventListener(r)

SpecWriter == StartsAs(BothLoggedIn) /\ [][NextWriter]_vars

\* two logged-in users on replica A: the session routes, a socket of one of
\* them with update_api_key frames, and the batch writer
NextOwner ==
    \/ \E u \in Users, sid \in SessionIds : Delivered /\ SessionsCreate("A", u, sid)
    \/ \E u \in Users, sid \in SessionIds : Delivered /\ SessionsUpdate("A", u, sid, "k2")
    \/ \E t \in tokens : Delivered /\ ConnectAfterLogin("A", 1, t)
    \/ \E msg \in KeyFrames : Delivered /\ Receive(1, msg, TRUE)
    \/ Delivered /\ BatchWriter("A")
    \/ \E r \in Replicas : EventListener(r)

SpecOwner == StartsAs(BothLoggedIn) /\ [][NextOwner]_vars

\* handshakes on replica B while the connection record comes and goes on replica A
NextHandshake ==
    \/ Login("A", "alice", "pw")
    \/ Logout("A", "alice")
    \/ ExpireConnection("alice")
    \/ \E w \in Sockets, t \in tokens, sid \in 0..2 : WsConnect("B", w, t, sid)
    \/ \E w \in Sockets : ClientDisconnect(w)
    \/ \E w \in Sockets : CloseDelivered(w)

SpecHandshake == StartsAs(LoggedIn) /\ [][NextHandshake]_vars

\* alice: her requests on replica B touch the session and her updates are
\* flushed by replica A, step by step, while a login on replica B deletes the
\* session
NextRace ==
    \/ Touch(1, "B", "alice")
    \/ TouchGet(1)
    \/ TouchSet(1)
    \/ TouchRecord(1)
    \/ \E sid \in SessionIds : SessionsUpdate("A", "alice", sid, "k2")
    \/ FlushSnapshot("A")
    \/ FlushGet("A", NoSid, {})
    \/ FlushExecute("A", TRUE)
    \/ \E k \in SessionIds : FlushPublish("A", k)
    \/ Login("B", "alice", "pw")

SpecRace == StartsAs(LoggedIn) /\ [][NextRace]_vars

\* one socket on replica A as time passes, fed with frames, while alice logs
\* out or logs in again on replica B
NextStamp ==
    \/ \E t \in tokens : WsConnect("A", 1, t, 1)
    \/ \E msg \in TimedFrames : ReceiveTimed(1, msg)
    \/ CloseDelivered(1)
    \/ PingSend(1)
    \/ PingCheck(1)
    \/ InactivityCheck(1)
    \/ ws[1].phase = "loop" /\ Logout("B", "alice")
    \/ Tick

SpecStamp == StartsAs(LoggedIn) /\ [][NextStamp]_vars

\* ------------------------------------------------------------- properties
SessionsOf(u) == {k \in SessionIds : kvSessions[k].user_id = u}

\* C1: in every reachable state the KV holds at most one session record
\* owned by a user.
C1_AtMostOneSessionPerUser ==
    \A u \in Users : Cardinality(SessionsOf(u)) <= 1

\* C2: when a login of u returns S2 after an earlier login of u returned S1,
\* then, once that login has completed, S2 differs from S1, sessions:S1 no
\* longer exists and connections:u.session_id is S2.
C2_SecondLoginDestroysFirst ==
    [][\A u \in Users :
          Len(logins'[u]) = Len(logins[u]) + 1 =>
              LET S2 == logins'[u][Len(logins'[u])]
              IN  \A i \in 1..Len(logins[u]) :
                      /\ S2 # logins[u][i]
                      /\ kvSessions'[logins[u][i]] = NoSession
                      /\ kvConn'[u].session_id = S2]_vars

\* C3: whenever a login or a logout publishes events:session:logout:<u>,
\* every replica that holds a live socket of u receives the event through the
\* listener of its registry (and then closes the socket, 1000 "Session ended").
C3_LogoutEventReachesEveryReplica ==
    [][\A u \in Users, r \in Replicas :
          (/\ <<"session:logout", u>> \in published'
           /\ active_connections[r][u] # NoConnInfo)
              => \E i \in 1..Len(wsInbox'[r]) :
                     wsInbox'[r][i].channel = <<"session:logout", u>>]_vars

\* C4: a handshake with a valid token and a session_id that differs from the
\* one in the user's connection record is closed with 1008 "Session mismatch"
\* and returns: no WS connection tracked, no health state, no monitors, no
\* welcome frame, no receive loop.
C4_MismatchedHandshakeRejected ==
    [][\A r \in Replicas, w \in Sockets, t \in tokens, sid \in ClientSids :
          (/\ WsConnect(r, w, t, sid)
           /\ kvConn[t.user] # EmptyHash
           /\ kvConn[t.user].session_id # sid)
              => /\ ws'[w].close_code = 1008
                 /\ ws'[w].close_reason = "Session mismatch"
                 /\ ws'[w].phase = "done"
                 /\ ws'[w].sent = <<>>
                 /\ ws'[w].ping_pc = "none"
                 /\ ws'[w].inact_pc = "none"
                 /\ active_connections' = active_connections
                 /\ connections_count' = connections_count
                 /\ connection_states' = connection_states
                 /\ kvConn' = kvConn]_vars

\* a handshake was closed with "Session mismatch" next to an admitted socket
C4_Witness ==
    \E w, v \in Sockets :
        /\ ws[w].close_reason = "Session mismatch"
        /\ ws[w].role = "user"
        /\ ws[v].phase = "loop"

\* C5: update_api_key sent N times with one key on a socket, within
\* CACHE_TTL, yields N ack frames and one enqueue into the batched writer:
\* the repeats enqueue nothing, so the N frames never enqueue twice.
C5_RepeatsEnqueueOnce ==
    \A w \in Sockets :
        ws[w].run_len >= 1 =>
            /\ ws[w].run_acks = ws[w].run_len
            /\ ws[w].run_enq <= 1

\* C6: a client that sends nothing but its pong replies for longer than
\* INACTIVITY_TIMEOUT is closed by the inactivity monitor, 1008 "Inactivity
\* timeout" (here for a user with a single socket).
C6_PongsDoNotKeepAlive ==
    [][\A w \in Sockets :
          (/\ InactivityCheck(w)
           /\ \A v \in Sockets \ {w} : ws[v].phase = "free"
           /\ ws[w].app = "CONNECTED"
           /\ now - ws[w].last_other > INACTIVITY_TIMEOUT)
              => /\ ws'[w].close_code = 1008
                 /\ ws'[w].close_reason = "Inactivity timeout"]_vars

\* C7: a socket that has received no frame for longer than INACTIVITY_TIMEOUT
\* is closed by the inactivity monitor at its next check, 1008 "Inactivity
\* timeout"; a socket whose last frame is at most INACTIVITY_TIMEOUT old is
\* never closed by the monitor.
C7_SilentSocketClosed ==
    [][\A w \in Sockets :
          InactivityCheck(w) =>
              /\ (ws[w].app = "CONNECTED" /\ now - ws[w].last_frame > INACTIVITY_TIMEOUT)
                     => /\ ws'[w].close_code = 1008
                        /\ ws'[w].close_reason = "Inactivity timeout"
              /\ now - ws[w].last_frame <= INACTIVITY_TIMEOUT
                     => ws'[w].app = ws[w].app]_vars

\* C8: when the ping loop, at its check after a ping, finds last_pong older
\* than PONG_TIMEOUT, it closes the socket with 1008 "Pong timeout" and exits;
\* the ping loop never closes a socket whose last pong (or admission) is at
\* most PONG_TIMEOUT old.
C8_PongTimeout ==
    [][\A w \in Sockets :
          /\ PingCheck(w) =>
                LET state == connection_states[ws[w].replica][ws[w].user]
                IN  /\ (state.present /\ now - state.last_pong > 30)
                           => /\ ws'[w].ping_pc = "done"
                              /\ ws'[w].app = "DISCONNECTED"
                              /\ (ws[w].app = "CONNECTED" /\ ws[w].closed_by = NoVal)
                                     => /\ ws'[w].close_code = 1008
                                        /\ ws'[w].close_reason = "Pong timeout"
                    /\ now - ws[w].last_own_pong <= 30
                           => /\ ws'[w].app = ws[w].app
                              /\ ws'[w].close_reason = ws[w].close_reason
          /\ PingSend(w) => /\ ws'[w].app = ws[w].app
                            /\ ws'[w].close_reason = ws[w].close_reason]_vars

\* the ping loop has closed a socket whose client answered no ping
C8_Witness ==
    \E w \in Sockets :
        /\ ws[w].close_reason = "Pong timeout"
        /\ ws[w].close_code = 1008
        /\ ws[w].ping_pc = "done"
        /\ ws[w].received = 0
        /\ Len(ws[w].sent) >= 3

\* a frame the engine answers with an error: not JSON, without a type, of a
\* type the role may not send, or of a type without a handler
BadFrame(w, msg) ==
    \/ msg.type \in {InvalidJson, MissingType}
    \/ /\ msg.type \in MsgTypes \ {"ping", "pong"}
       /\ \/ ~ _is_message_allowed(Cur, ws[w].replica, msg.type, ws[w].role)
          \/ /\ msg.type # "update_api_key"
             /\ ~ ws_handlers[ws[w].replica][msg.type].registered

\* the effect of such a frame, whatever it does to the registry entry
ErrorOnly(w) ==
    /\ ws'[w].sent = Append(ws[w].sent, "error")
    /\ ws'[w].app = "CONNECTED"
    /\ ws'[w].phase = "loop"
    /\ ws'[w].close_code = 0
    /\ ws'[w].ping_pc = ws[w].ping_pc
    /\ ws'[w].inact_pc = ws[w].inact_pc
    /\ \A v \in Sockets \ {w} : ws'[v] = ws[v]
    /\ pending_updates' = pending_updates
    /\ message_cache' = message_cache
    /\ connections_count' = connections_count
    /\ \A r \in Replicas, u \in Users :
           [connection_states'[r][u] EXCEPT !.last_activity = 0]
               = [connection_states[r][u] EXCEPT !.last_activity = 0]

\* C9: a frame that is malformed, has no type, or has a type that is unknown
\* or not allowed for the role gets exactly one error frame, nothing is
\* dispatched, the socket stays open, and the registry and the health state
\* are unchanged apart from last_activity.
C9_BadFrameOnlyTouchesLastActivity ==
    [][\A w \in Sockets, msg \in Frames, ok \in BOOLEAN :
          (Receive(w, msg, ok) /\ BadFrame(w, msg))
              => ErrorOnly(w) /\ active_connections' = active_connections]_vars

\* C9 as it holds: the registry entry keeps its socket and session, and its
\* last_seen is refreshed when it is LAST_SEEN_UPDATE_INTERVAL old.
C9_BadFrameTouchesTimestamps ==
    [][\A w \in Sockets, msg \in Frames, ok \in BOOLEAN :
          (Receive(w, msg, ok) /\ BadFrame(w, msg))
              => /\ ErrorOnly(w)
                 /\ \A r \in Replicas, u \in Users :
                        [active_connections'[r][u] EXCEPT !.last_seen = 0]
                            = [active_connections[r][u] EXCEPT !.last_seen = 0]]_vars

\* an open socket has been sent an error frame 30 s or more after admission
C9_Witness ==
    \E w \in Sockets :
        /\ ws[w].phase = "loop"
        /\ ws[w].app = "CONNECTED"
        /\ ws[w].received = 1
        /\ ws[w].sent[Len(ws[w].sent)] = "error"
        /\ active_connections[ws[w].replica][ws[w].user].last_seen
               >= Epoch + LAST_SEEN_UPDATE_INTERVAL

Listed(r, role) ==
    {message_permissions[r][role][i] : i \in 1..Len(message_permissions[r][role])}

OpenHandlers(r) ==
    {t \in MsgTypes : ws_handlers[r][t].registered /\ ~ ws_handlers[r][t].require_auth}

Allowed(r, role, type) == _is_message_allowed(Cur, r, type, role)

AllowedNext(r, role, type) ==
    _is_message_allowed([message_permissions |-> message_permissions',
                         ws_handlers |-> ws_handlers'], r, type, role)

\* C10: allowed(role, type) holds exactly when the role's list contains "*" or
\* type, or type is a registered handler with require_auth = false; with the
\* default lists user is allowed exactly update_api_key, chat_message, ping,
\* pong and the open handlers, and admin everything; the predicate follows the
\* tables: an added pair is allowed, a removed pair and an unregistered
\* handler are denied unless a wildcard or an open handler allows them.
C10_AllowedFollowsTables ==
    /\ [](\A role \in Roles, type \in MsgTypes \cup {"*"} :
             /\ Allowed("A", role, type)
                    <=> \/ "*" \in Listed("A", role)
                        \/ type \in Listed("A", role)
                        \/ type \in OpenHandlers("A")
             /\ message_permissions["A"] = DefaultPermissions
                    => /\ Allowed("A", "admin", type)
                       /\ Allowed("A", "user", type)
                              <=> type \in {"update_api_key", "chat_message", "ping", "pong"}
                                               \cup OpenHandlers("A")
                       /\ Allowed("A", "guest", type) <=> type \in OpenHandlers("A"))
    /\ [][\A role \in Roles, type \in PermTypes :
             /\ AddMessagePermission("A", role, type) => AllowedNext("A", role, type)
             /\ RemoveMessagePermission("A", role, type)
                    => (AllowedNext("A", role, type)
                           <=> "*" \in Listed("A", role) \ {type}
                                  \/ type \in OpenHandlers("A"))
             /\ UnregisterApi("A", "echo")
                    => (AllowedNext("A", role, "echo")
                           <=> {"*", "echo"} \cap Listed("A", role) # {})]_vars

\* a pair was removed, a pair added for an unknown role, an open handler is registered
C10_Witness ==
    /\ "chat_message" \notin Listed("A", "user")
    /\ "echo" \in Listed("A", "guest")
    /\ "*" \notin Listed("A", "admin")
    /\ "echo" \in OpenHandlers("A")

\* the connection handler of socket w returns: its finally block has run
HandlerReturns(w) == ClientDisconnect(w) \/ CloseDelivered(w)

\* C11: once the connection handler of an admitted socket has returned, both
\* monitor tasks of that socket are cancelled or finished, the replica holds
\* no health entry for the user, no message-cache entry for (user, session)
\* and no registry entry for the user, and a removal event was published.
C11_ExitCleansUp ==
    [][\A w \in Sockets :
          HandlerReturns(w) =>
              LET r == ws[w].replica
                  u == ws[w].user
              IN  /\ ws'[w].phase = "done"
                  /\ ws'[w].ping_pc \in {"cancelled", "done"}
                  /\ ws'[w].inact_pc \in {"cancelled", "done"}
                  /\ connection_states'[r][u] = NoHealth
                  /\ message_cache'[r][<<u, ws[w].session_id>>] = NoCachedMessage
                  /\ active_connections'[r][u] = NoConnInfo
                  /\ <<"connection:removed", u>> \in published']_vars

\* C12: remove_ws_connection is idempotent: a second invocation for the same
\* user leaves the registry, the counter and the sockets as the first one left
\* them; the first decrements the counter exactly when it found an entry, and
\* the counter is never negative, however the listener's removal and the
\* handler's own cleanup interleave.
C12_RemoveIsIdempotent ==
    /\ [](\A r \in Replicas, u \in Users, sid \in SessionIds :
             LET once == remove_ws_connection(Cur, r, u, sid)
                 twice == remove_ws_connection(once, r, u, sid)
             IN  /\ twice.active_connections = once.active_connections
                 /\ twice.connections_count = once.connections_count
                 /\ twice.ws = once.ws
                 /\ once.active_connections[r][u] = NoConnInfo
                 /\ once.connections_count[r] =
                        connections_count[r]
                            - (IF active_connections[r][u] # NoConnInfo THEN 1 ELSE 0)
                 /\ once.connections_count[r] >= 0
                 /\ connections_count[r] >= 0)
    /\ [][\A r \in Replicas :
             /\ connections_count'[r] >= connections_count[r] - 1
             /\ connections_count'[r] < connections_count[r]
                    => \E u \in Users : /\ active_connections[r][u] # NoConnInfo
                                        /\ active_connections'[r][u] = NoConnInfo]_vars

\* the listener has removed and closed a socket, and the handler of that
\* socket has then run its own cleanup
C12_Witness ==
    \E w \in Sockets :
        /\ ws[w].phase = "done"
        /\ ws[w].closed_by = "server"
        /\ ws[w].close_reason = "Session ended"
        /\ \A v \in Sockets \ {w} : ws[v].phase = "free"
        /\ connections_count[ws[w].replica] = 0

\* C13: the session_id of a connections:<u> record names a session record
\* that exists in the KV: a step that binds the record to a session binds it
\* to a session the KV holds.
C13_ConnectionNamesLiveSession ==
    [][\A u \in Users :
          (/\ kvConn'[u] # EmptyHash
           /\ kvConn'[u].session_id # kvConn[u].session_id)
              => /\ kvConn'[u].session_id \in SessionIds
                 /\ kvSessions'[kvConn'[u].session_id] # NoSession]_vars

\* C14: on every replica, each username present in the user cache is present
\* in the KV user store.
C14_UserCacheSubsetOfStore ==
    \A r \in Replicas, u \in Users :
        users_cache[r][u] # NoUser => kvUsers[u] # NoUser

\* every message published so far has been handled by its listeners
DeliveryRoundOver == \A r \in Replicas : eventInbox[r] = <<>>

\* C15: once delete_account(u) has run and the pub/sub round it started is
\* over, u is in the user cache of no replica.
C15_DeletedUserLeavesEveryCache ==
    \A u \in Users :
        (kvUsers[u] = NoUser /\ DeliveryRoundOver)
            => \A r \in Replicas : users_cache[r][u] = NoUser

\* the run of the reaper that this step completes, if it completes one
SweepDays == sweeps'[Len(sweeps')].days

\* C16: a reaper run deletes every session and the connection record of each
\* user whose last_login is older than the cutoff, leaves the users record
\* unchanged and publishes events:user:inactive_cleanup:<u>; the other users
\* keep their sessions and their connection record.
C16_ReaperPurgesInactiveUsers ==
    [][Len(sweeps') = Len(sweeps) + 1 =>
          \A u \in Users :
              kvUsers[u] # NoUser =>
                  IF kvUsers[u].last_login < now - SweepDays * SECONDS_PER_DAY
                  THEN /\ \A k \in SessionIds : kvSessions'[k].user_id # u
                       /\ kvConn'[u] = EmptyHash
                       /\ kvUsers'[u] = kvUsers[u]
                       /\ <<"user:inactive_cleanup", u>> \in published'
                  ELSE /\ \A k \in SessionsOf(u) : kvSessions'[k] = kvSessions[k]
                       /\ kvConn'[u] = kvConn[u]]_vars

\* C17: when the inactive-users sweep publishes events:user:inactive_cleanup:<u>,
\* every replica that holds a socket of u is told: one of its listeners
\* receives the message that makes it close the socket.
C17_InactiveCleanupReachesSockets ==
    [][\A u \in Users, r \in Replicas :
          (/\ <<"user:inactive_cleanup", u>> \in published'
           /\ active_connections[r][u] # NoConnInfo)
              => \/ \E i \in 1..Len(wsInbox'[r]) :
                        wsInbox'[r][i].channel = <<"user:inactive_cleanup", u>>
                 \/ \E i \in 1..Len(eventInbox'[r]) :
                        eventInbox'[r][i].channel = <<"user:inactive_cleanup", u>>
                 \/ active_connections'[r][u] = NoConnInfo]_vars

\* C18: when logout(u) has completed, the connection record of u is removed,
\* events:session:logout:<u> has been published, and the session u held no
\* longer exists in the KV.
C18_LogoutDestroysSession ==
    [][\A r \in Replicas, u \in Users :
          LET principal == get_current_user_with_activity(Cur, r, u)
          IN  (Logout(r, u) /\ principal.err = NoVal)
                  => /\ kvConn'[u] = EmptyHash
                     /\ <<"session:logout", u>> \in published'
                     /\ kvSessions'[principal.retSid] = NoSession]_vars

\* the outcome s of an authorization of u: no error, and u has a non-WS
\* connection record that names a session of u
Authorized(s, u) ==
    /\ s.err = NoVal
    /\ s.kvConn[u] # EmptyHash
    /\ s.kvConn[u].ws_connected = "0"
    /\ s.kvConn[u].session_id \in SessionIds
    /\ s.kvSessions[s.kvConn[u].session_id].user_id = u

\* C19: at both authenticated entry points, the HTTP dependency and the WS
\* activity check, a valid token of a user without a connection record is
\* authorized by creating a default session and a non-WS connection record;
\* an expected session that differs from the tracked one fails with a
\* session mismatch and writes no timestamp.
C19_EntryPointsCreateDefaultSession ==
    \A r \in Replicas, t \in tokens, expected \in ClientSids \cup {NoSid} :
        LET u == t.user
            http == get_current_user_with_activity(Cur, r, u)
            wsact == verify_and_update_activity(Cur, r, t, expected)
        IN  /\ (kvConn[u] = EmptyHash /\ CanMint(Cur) /\ expected = NoSid)
                   => Authorized(http, u) /\ Authorized(wsact, u)
            /\ (/\ kvConn[u] # EmptyHash
                /\ expected # NoSid
                /\ expected # kvConn[u].session_id)
                   => /\ wsact.err = "400 Session mismatch"
                      /\ wsact.kvConn = kvConn
                      /\ wsact.kvSessions = kvSessions
                      /\ wsact.last_timestamp_updates = last_timestamp_updates
                      /\ wsact.last_connection_updates = last_connection_updates

\* C20: on one replica, update_timestamp_only writes the last_access of a
\* session at most once per TIMESTAMP_UPDATE_INTERVAL, whatever the
\* interleaving of the requests and frames: a call that arrives less than
\* TIMESTAMP_UPDATE_INTERVAL seconds after the call of the replica's last
\* write of the session writes nothing.  Time is the current_time of the
\* calls, which is the value written.
C20_OneWritePerInterval ==
    \A i, j \in 1..Len(touch_writes) :
        (/\ i < j
         /\ touch_writes[i].session_id = touch_writes[j].session_id
         /\ touch_writes[i].replica = touch_writes[j].replica)
            => touch_writes[j].arrived - touch_writes[i].arrived
                   >= TIMESTAMP_UPDATE_INTERVAL

\* the proxy routes of name that router.routes holds
Mounted(routes, name) == {k \in 1..Len(routes) : routes[k].path = name}

\* C21: after unregister(name) succeeds, name is in neither the API table nor
\* the WS handler table and no proxy route of name is left on the router;
\* unregister of an unknown name fails with 404 and changes nothing.
C21_UnregisterRemovesEveryMount ==
    [][\A r \in Replicas, name \in MsgTypes :
          /\ (UnregisterApi(r, name) /\ name \in external_apis[r])
                 => /\ name \notin external_apis'[r]
                    /\ ~ ws_handlers'[r][name].registered
                    /\ rest_route_refs'[r][name] = NoRoute
                    /\ Mounted(router_routes'[r], name) = {}
          /\ name \notin external_apis[r]
                 => unregister_api(Cur, r, name)
                        = [Cur EXCEPT !.err = "404 API not found"]]_vars

\* C22: an upstream call is attempted at most RETRY_ATTEMPTS times; after an
\* attempt another one follows exactly when the attempt ended in a timeout,
\* a network error, a 5xx or a 429 and attempts are left; any other 4xx is
\* answered with HTTP_<code> and no attempt follows it.
C22_RetriesOnRetryableOutcomes ==
    [][\A c \in Requests, outcome \in Outcomes :
          AttemptEnd(c, outcome)
              => /\ requests[c].attempt_number <= RETRY_ATTEMPTS
                 /\ requests'[c].pc = "attempt"
                        <=> /\ outcome \in {"timeout", "network", "503", "429"}
                            /\ requests[c].attempt_number < RETRY_ATTEMPTS
                 /\ outcome = "404"
                        => /\ requests'[c].result = "HTTP_404"
                           /\ requests'[c].pc = "done"]_vars

\* the attempts a half-open breaker of replica r has let through and that
\* have not ended
Trials(r) ==
    {c \in Requests : /\ requests[c].pc = "inflight"
                      /\ requests[c].replica = r
                      /\ requests[c].trial}

\* C23: the breaker opens with the CIRCUIT_FAILURE_THRESHOLD-th consecutive
\* failed attempt; while it is open and CIRCUIT_RECOVERY_TIMEOUT has not run
\* out a call is answered CIRCUIT_BREAKER_OPEN without an attempt, and the
\* frame of a socket gets an error frame; after the timeout one trial attempt
\* is let through, which closes the breaker if it succeeds and opens it again
\* if it fails; a success resets the count of failures.
C23_BreakerOpensAndRecovers ==
    [][\A c \in Requests :
          LET r == requests[c].replica
              w == requests[c].socket
          IN  /\ \A outcome \in Outcomes \ {"ok"} :
                     AttemptEnd(c, outcome)
                         => (circuit_breaker'[r].state = "open"
                                <=> circuit_breaker[r].failure_count + 1
                                        >= CIRCUIT_FAILURE_THRESHOLD)
              /\ AttemptEnd(c, "ok") => circuit_breaker'[r] = ClosedBreaker
              /\ (AttemptBegin(c) /\ Opened(Cur, r))
                     => /\ requests'[c].pc = "done"
                        /\ requests'[c].result = "CIRCUIT_BREAKER_OPEN"
              /\ (ProxyReturn(c) /\ requests[c].result = "CIRCUIT_BREAKER_OPEN"
                                 /\ w # NoSock)
                     => ws'[w].sent = Append(ws[w].sent, "error")
              /\ (AttemptBegin(c) /\ HalfOpen(Cur, r))
                     => /\ requests'[c].pc = "inflight"
                        /\ Trials(r) = {}
              /\ (AttemptEnd(c, "503") /\ requests[c].trial /\ HalfOpen(Cur, r))
                     => circuit_breaker'[r].state = "open"
                            /\ circuit_breaker'[r].opened = now]_vars

\* C24: the owner of a session record is fixed at creation: no step changes
\* the user_id of a session record that exists before and after it.
C24_OwnerIsFixed ==
    [][\A sid \in SessionIds :
          (kvSessions[sid] # NoSession /\ kvSessions'[sid] # NoSession)
              => kvSessions'[sid].user_id = kvSessions[sid].user_id]_vars

\* a batch flush has written the api_key of one user's update into the
\* session of another user
C24_Witness ==
    \E sid \in SessionIds, w \in Sockets :
        /\ kvSessions[sid] # NoSession
        /\ kvSessions[sid].api_key = "k1"
        /\ ws[w].session_id = sid
        /\ ws[w].run_enq > 0
        /\ ws[w].user # kvSessions[sid].user_id

\* C25: POST /sessions/create answers from the local session cache only
\* while the entry is younger than the cache TTL; with an entry at or beyond
\* its TTL the answer is the record of the KV (or a new session when the KV
\* has none)
C25_CacheOnlyWithinTtl ==
    [][\A sid \in SessionIds :
          LET cached == session_cache["A"][sid]
              age == now - cached.cached_at
          IN  ( /\ SessionsCreate("A", "alice", sid)
                /\ get_current_user_with_activity(Cur, "A", "alice").err = NoVal
                /\ cached # NoCached )
              => /\ ( /\ session_cache'["A"][sid] = cached
                      /\ session_response'.session_id = sid ) => age < CACHE_TTL_SESSION
                 /\ (age >= CACHE_TTL_SESSION /\ kvSessions[sid] # NoSession)
                      => /\ session_response'
                               = [session_id |-> sid, data |-> kvSessions[sid].api_key]
                         /\ session_cache'["A"][sid].cached_at = now]_vars

\* replica A, whose entry of session 1 was cached at Epoch, answered exactly
\* CACHE_TTL_SESSION seconds later with the key replica B had flushed
C25_Witness ==
    /\ session_cache["A"][1].cached_at = Epoch + CACHE_TTL_SESSION
    /\ now = Epoch + CACHE_TTL_SESSION
    /\ session_response = [session_id |-> 1, data |-> "k2"]

\* C26: on a socket connected with the session id the login returned, once
\* the client has sent one update_api_key message the first frame the server
\* has sent has type "ack"
C26_FirstFrameIsAck ==
    \A w \in Sockets :
        ( /\ ws[w].phase = "loop"
          /\ InList(ws[w].session_id, logins[ws[w].user])
          /\ ws[w].received = 1
          /\ ws[w].run_len = 1 )
        => /\ ws[w].sent # <<>>
           /\ Head(ws[w].sent) = "ack"

C28_PublishAfterWrite ==
    [][\A k \in SessionIds :
          (Delivered /\ FlushPublish("A", k))
          => /\ flush["A"].pc # "execute"
             /\ kvSessions[k].api_key = flush["A"].writes[k].api_key]_vars

\* C29: when the write of a session fails in the batch writer, the
\* de-duplication entry of the update_api_key message whose key was being
\* written is evicted from the message cache
C29_FailedWriteEvictsDedupeEntry ==
    [][\A k \in SessionIds, u \in Users :
          ( /\ Delivered
            /\ FlushExecute("A", FALSE)
            /\ flush["A"].writes[k] # NoSession
            /\ message_cache["A"][<<u, k>>] # NoCachedMessage
            /\ message_cache["A"][<<u, k>>].message_data = flush["A"].writes[k].api_key )
          => message_cache'["A"][<<u, k>>] = NoCachedMessage]_vars

\* C30: when the stored record of one session of a round cannot be read, the
\* round goes on to its pipelined SET with the updates of the other sessions
\* of the snapshot that have a record
C30_OtherSessionsStillWritten ==
    [][\A unreadable \in SessionIds, before \in SUBSET SessionIds :
          \A k \in SessionIds \ {unreadable} :
              ( /\ Delivered
                /\ FlushGet("A", unreadable, before)
                /\ flush["A"].to_process[k] # NoPending
                /\ kvSessions[k] # NoSession )
              => /\ flush'["A"].pc = "execute"
                 /\ flush'["A"].writes[k] # NoSession]_vars

\* C31: a frame that arrives SESSION_UPDATE_INTERVAL seconds or more after
\* the last successful check, on a socket whose token has expired, closes the
\* socket with code 1008
C31_ExpiredTokenClosesSocket ==
    [][\A msg \in TimedFrames :
          ( /\ Receive(1, msg, TRUE)
            /\ now - ws[1].last_session_update >= SESSION_UPDATE_INTERVAL
            /\ [user |-> ws[1].user, role |-> ws[1].role] \notin tokens )
          => /\ ws'[1].app # "CONNECTED"
             /\ ws'[1].close_code = 1008]_vars

\* C32: a socket in its receive loop has not been closed by the cleanup of
\* another socket, and while it is open it has a health entry and its two
\* monitors are running; the monitors of a socket that has left the loop are
\* not running
C32_EverySocketKeepsItsMonitors ==
    \A w \in Sockets :
        /\ ws[w].phase = "loop"
             => /\ ws[w].close_reason # "Session ended"
                /\ ws[w].app = "CONNECTED"
                     => /\ connection_states[ws[w].replica][ws[w].user].present
                        /\ ws[w].ping_pc \in {"sleep", "wait"}
                        /\ ws[w].inact_pc = "sleep"
        /\ (ws[w].phase = "done" /\ ws[w].user # NoVal)
             => /\ ws[w].ping_pc \notin {"sleep", "wait"}
                /\ ws[w].inact_pc # "sleep"

\* C33: on every replica the registry's connection counter equals the number of
\* entries of its active-connections table and is never negative, whatever the
\* interleaving of track and remove, tracking an already tracked user included.
C33_CounterEqualsTableSize ==
    \A r \in Replicas :
        /\ connections_count[r] >= 0
        /\ connections_count[r]
               = Cardinality({u \in Users : active_connections[r][u] # NoConnInfo})

\* C34: a socket reaches the receive loop only if, at the handshake, a
\* connection record of the token's user existed and its session_id equalled
\* the session_id of the handshake; after logout or expiry removed the record,
\* a handshake with a valid token and any session_id is not admitted.
C34_AdmittedOnlyWithMatchingRecord ==
    [][\A w \in Sockets, t \in tokens, sid \in 0..2 :
          (WsConnect("B", w, t, sid) /\ ws'[w].phase = "loop")
              => /\ kvConn[t.user] # EmptyHash
                 /\ kvConn[t.user].session_id = sid]_vars

\* C35: the session that connections:<u> references is owned by u: a
\* create-or-reuse called by u with the session_id of another user's session
\* neither binds u's connection record to that session nor hands u its data.
C35_ConnectionReferencesOwnSession ==
    \A u \in Users :
        (/\ kvConn[u] # EmptyHash
         /\ kvConn[u].session_id \in SessionIds
         /\ kvSessions[kvConn[u].session_id] # NoSession)
            => kvSessions[kvConn[u].session_id].user_id = u

\* C36: a session record that was created and then deleted (by a new login or
\* delete_account) never reappears in the KV: no step of a touch or of a batch
\* flush that read the record before the deletion writes it back.
C36_DeletedSessionStaysDeleted ==
    [][\A k \in SessionIds :
          (k < nextSid /\ kvSessions[k] = NoSession)
              => kvSessions'[k] = NoSession]_vars

\* C37: a data key written to a session by a batch flush is not lost to a
\* concurrent touch: when the flush has completed and stored the key, the SET
\* that completes the touch leaves the key in the stored record.
C37_TouchKeepsFlushedData ==
    [][( /\ TouchSet(1)
         /\ \A r \in Replicas : flush[r].pc = "idle"
         /\ kvSessions[touch[1].session_id] # NoSession
         /\ kvSessions[touch[1].session_id].api_key # NoVal )
           => kvSessions'[touch[1].session_id].api_key
                  = kvSessions[touch[1].session_id].api_key]_vars

\* C38: every connections:<u> hash present in the KV has a session_id field:
\* the timestamp updates of the connection tracker and of the WS registry
\* never create or leave a record without it, also after a removal.
C38_ConnectionRecordHasSessionId ==
    \A u \in Users :
        kvConn[u] # EmptyHash => kvConn[u].session_id # NoSid

\* C39: while a socket of user u is in its receive loop on some replica,
\* connections:<u>.ws_connected is true, and when no socket is attached it is
\* not true; authenticated HTTP activity of u does not reset the flag.
C39_FlagFollowsSocket ==
    \A u \in Users :
        LET attached == \E w \in Sockets : /\ ws[w].phase = "loop"
                                           /\ ws[w].user = u
                                           /\ ws[w].app = "CONNECTED"
        IN  attached <=> kvConn[u].ws_connected = "1"

\* C40: every update enqueued by update_session is taken by exactly one flush
\* snapshot.  An entry leaves the queue only into the snapshot of an idle
\* writer, a snapshot takes the whole queue and empties it, and an update that
\* arrives while a round is under way stays queued and leaves that round's
\* snapshot as it was.
C40_EveryUpdateInOneSnapshot ==
    [][\A r \in Replicas, k \in ClientSids :
          /\ (pending_updates[r][k] # NoPending /\ pending_updates'[r][k] = NoPending)
                => /\ flush[r].pc = "idle"
                   /\ flush'[r].pc = "get"
                   /\ flush'[r].to_process[k] = pending_updates[r][k]
          /\ (flush[r].pc = "idle" /\ flush'[r].pc = "get")
                => /\ flush'[r].to_process = pending_updates[r]
                   /\ pending_updates'[r][k] = NoPending
          /\ flush[r].pc # "idle"
                => /\ flush'[r].to_process = flush[r].to_process
                   /\ pending_updates[r][k] # NoPending
                        => /\ pending_updates'[r][k] # NoPending
                           /\ pending_updates[r][k].api_key # NoVal
                                => pending_updates'[r][k].api_key # NoVal]_vars

\* an update of a session arrived while the round that took the session's
\* earlier update is under way
C40_Witness ==
    \E k \in SessionIds :
        /\ flush["A"].pc \in {"get", "execute"}
        /\ flush["A"].to_process[k] # NoPending
        /\ pending_updates["A"][k] # NoPending

============================================================================
